---- MODULE Spec2Model ----
(***************************************************************************)
(* A model of the workspace launcher (src/workspace-launcher.py and the    *)
(* modules under src/src/ it is built from): the preference store with its *)
(* atomic write, the directory and worktree discovery, the tab selection   *)
(* dialog with its rename sub-flow, and the reorder dialog.                *)
(*                                                                         *)
(* Each component has its own specification over the shared variables:     *)
(*   SpecPrefs      save_preferences / atomic_write_file / load_preferences*)
(*   SpecDiscovery  discover_all_directories / discover_all_worktrees      *)
(*   SpecSelect     show_tab_customization and the rename dialogs          *)
(*   SpecReorder    show_tab_reorder_dialog / _reorder_tabs_by_numbers     *)
(* The variables of the other components keep their idle values.           *)
(***************************************************************************)
EXTENDS Integers, Sequences, FiniteSets, TLC

VARIABLES
    \* ---- preference store ----
    prefs,        \* the in-memory preferences dict (a function on its keys)
    fsTarget,     \* the preferences file: <<>> when absent, <<content>> else
    fsTemp,       \* the temp file of the running atomic_write_file, same shape
    awPc,         \* where save_preferences / atomic_write_file stands
    awContent,    \* the content atomic_write_file was called with
    awPrev,       \* the target file when atomic_write_file was entered
    awErr,        \* the error the last atomic_write_file raised, "none" if none
    savedPrefs,   \* the dict handed to the running / last save_preferences
    loaded,       \* what the last load_preferences returned, <<>> before it
    \* ---- discovery ----
    dsPc, dsRoots, dsFs, dsExclude, dsIdx, dsDiscovered, dsWarned,
    dsRepos, dsUntracked, dsWorktrees,
    dsListing,    \* the lines of the worktree listing that was parsed last
    \* ---- selection flow and rename dialog ----
    selPc, selIn, selLast, selCustom, selHeight, selBoxes, selRc, selOut, selResult, selSaved,
    rnCategory, rnCustom, rnPage, rnAll, rnShown, rnSubmitted, rnReturn, rnHow,
    \* ---- reorder dialog ----
    roPc, roTabs, roCustom, roCurrent, roIter, roResult, roLastOut,
    \* ---- main, the orchestrator ----
    mainPc,       \* where main stands
    mainPrefs,    \* main's prefs dict
    mainAllTabs,  \* main's all_tabs
    mainSaves,    \* the number of save_preferences calls main has made
    \* ---- workspace launch ----
    cfgFile,      \* the workspace file: <<>> when absent, <<lines>> else
    cfgResult,    \* what load_config_from_path gave, <<>> before the call
    lnReport,     \* report.errors, the errors main collected
    lnFinal,      \* final_tabs, what show_tab_customization returned last
    lnShown,      \* the number of show_tab_customization calls of main
    lnAlert,      \* the responses of the "No Tabs Selected" alerts, in order
    lnSelected,   \* all_tabs as handed to filter_already_open_tabs
    lnOpenDirs,   \* open_dirs, what get_open_tab_directories returned
    lnSkipped,    \* tabs_skipped, the names filter_already_open_tabs passed over
    lnIdx,        \* the position of the creation loop in all_tabs
    lnCalls,      \* the create_tab_with_splits calls made, in order
    lnWarned,     \* report.warnings, the tab dirs that were not found
    ctPc,         \* where the running create_tab_with_splits stands
    paneL,        \* where setup_pane_and_send_command of the left pane stands
    paneR,        \* the same for the right pane
    dlgRc,        \* the return code with which the category selector, the
                  \* rename dialog or the reorder dialog returned last
    \* ---- first-run detection and wizard ----
    cfgDir0,      \* CONFIG_DIR as the launch found it: None when it does not
                  \* exist, else the set of the file names in it
    cfgDir,       \* CONFIG_DIR now
    wzPc,         \* where run_first_run_wizard stands
    wzFirstRun,   \* what is_first_run() returned, None before the call
    \* ---- reorder_window_tabs ----
    winTabs,      \* window.tabs: the tabs of the window, in window order
    winDesired,   \* desired_order, a list of directory paths
    winCreated,   \* created_tabs, the (dir, tab) pairs in insertion order
    winMap,       \* dir_to_tab
    winIdx,       \* the position of the query loop in window.tabs
    winOrdered,   \* ordered_tabs, the tab ids in the order built
    winPc         \* where reorder_window_tabs stands

prefVars == <<prefs, fsTarget, fsTemp, awPc, awContent, awPrev, awErr, savedPrefs, loaded>>
dsVars   == <<dsPc, dsRoots, dsFs, dsExclude, dsIdx, dsDiscovered, dsWarned,
              dsRepos, dsUntracked, dsWorktrees, dsListing>>
selVars  == <<selPc, selIn, selLast, selCustom, selHeight, selBoxes, selRc, selOut,
              selResult, selSaved,
              rnCategory, rnCustom, rnPage, rnAll, rnShown, rnSubmitted, rnReturn, rnHow>>
roVars   == <<roPc, roTabs, roCustom, roCurrent, roIter, roResult, roLastOut>>
mainVars == <<mainPc, mainPrefs, mainAllTabs, mainSaves>>
createVars == <<lnReport, lnFinal, lnShown, lnAlert, lnSelected, lnOpenDirs, lnSkipped,
                lnIdx, lnCalls, lnWarned, ctPc, paneL, paneR>>
wizVars == <<cfgDir0, cfgDir, wzPc, wzFirstRun>>
winVars == <<winTabs, winDesired, winCreated, winMap, winIdx, winOrdered, winPc>>
launchVars == <<cfgFile, cfgResult, createVars, dlgRc, wizVars, winVars>>

\* What the dialogs below show_tab_customization_swiftdialog leave alone.
notDialog == <<prefVars, dsVars, mainVars, cfgFile, cfgResult, createVars, wizVars,
               winVars>>
vars     == <<prefVars, dsVars, selVars, roVars, mainVars, launchVars>>

notPrefs == <<dsVars, selVars, roVars, mainVars, launchVars>>
notDs    == <<prefVars, selVars, roVars, mainVars, launchVars>>
notSel   == <<prefVars, dsVars, roVars, mainVars, launchVars>>
notRo    == <<prefVars, dsVars, selVars, mainVars, launchVars>>

(***************************************************************************)
(* Python values.  None and a missing value are the empty tuple, a present *)
(* value v is <<v>>; a dict is a function on the set of its keys.          *)
(***************************************************************************)
None == <<>>

Some(v) == <<v>>

\* dict.get(key): None for a missing key.
Get(d, k) == IF k \in DOMAIN d THEN Some(d[k]) ELSE None

\* {**base, **override}
DictMerge(base, override) == override @@ base

EmptyDict == [k \in {} |-> None]

Range(s) == {s[i] : i \in DOMAIN s}

(***************************************************************************)
(* Preference store: load_preferences, save_preferences, atomic_write_file *)
(* (src/workspace-launcher.py 825-1030).                                   *)
(*                                                                         *)
(* A file content is the sequence of its lines; a line is a record         *)
(* [key, val].  The header comment is one line, the [custom_tab_names]     *)
(* table is one line holding the dict, every [[scan_directories]] table is *)
(* one line.  Strings are written between double quotes without escaping,  *)
(* so a string that holds a double quote makes the file unparsable.        *)
(***************************************************************************)
MaxSelections == 1

LayoutNames == {"dev"}

TabNames == {"n1", "n2"}

\* A name a user can type in the rename dialog and that TOML needs escaped.
BadName == "my \"x\""

TabPaths == {"/w/a"}

ScanRoots == {"/w"}

DEFAULT_SCAN_DIRECTORIES == <<>>

\* load_preferences: the defaults dict.
PrefDefaults ==
    [remember_choice  |-> FALSE,
     last_layout      |-> None,
     scan_directories |-> DEFAULT_SCAN_DIRECTORIES,
     custom_tab_names |-> EmptyDict,
     disabled_layouts |-> <<>>]

SeqsUpTo(S, n) == UNION {[1..k -> S] : k \in 0..n}

\* The optional keys of the dict: a key is missing or holds one of vals.
OptionalKey(k, vals) == {EmptyDict} \cup {(k :> v) : v \in vals}

\* The Preferences values of the model: the five keys load_preferences always
\* returns plus the three keys main sets later.  last_tab_order is set only
\* from a reorder of two or more tabs, so it is never the empty list.
PrefsUniverse ==
    {base @@ skip @@ sel @@ ord :
        base \in [remember_choice  : BOOLEAN,
                  last_layout      : {None} \cup {Some(n) : n \in LayoutNames},
                  scan_directories : SeqsUpTo([path : ScanRoots, enabled : BOOLEAN], 1),
                  custom_tab_names : {EmptyDict} \cup
                                     {(p :> n) : p \in TabPaths, n \in {"n1", BadName}},
                  disabled_layouts : SeqsUpTo(LayoutNames, 1)],
        skip \in OptionalKey("skip_tab_customization", BOOLEAN),
        sel  \in OptionalKey("last_tab_selections", SeqsUpTo({"n1"}, MaxSelections)),
        ord  \in OptionalKey("last_tab_order", {<<p>> : p \in TabPaths})}

Line(k, v) == [key |-> k, val |-> v]

HeaderLine == Line("#", "Workspace Launcher Preferences")

\* save_preferences, the conditions under which each line is written.
HasLastLayout(p) == "last_layout" \in DOMAIN p /\ p.last_layout # None /\ p.last_layout # Some("")

HasSkip(p) == "skip_tab_customization" \in DOMAIN p

HasNonEmpty(p, k) == k \in DOMAIN p /\ p[k] # <<>>

HasCustomNames(p) == "custom_tab_names" \in DOMAIN p /\ DOMAIN p.custom_tab_names # {}

ScanDirLines(dirs) == [i \in 1..Len(dirs) |-> Line("scan_directories", dirs[i])]

\* save_preferences: the content it renders (lines = [...]; "\n".join(lines)).
save_preferences_content(p) ==
    <<HeaderLine,
      Line("remember_choice", "remember_choice" \in DOMAIN p /\ p.remember_choice)>>
    \o (IF HasLastLayout(p) THEN <<Line("last_layout", p.last_layout[1])>> ELSE <<>>)
    \o (IF HasSkip(p) THEN <<Line("skip_tab_customization", p.skip_tab_customization)>> ELSE <<>>)
    \o (IF HasNonEmpty(p, "last_tab_selections")
          THEN <<Line("last_tab_selections", p.last_tab_selections)>> ELSE <<>>)
    \o (IF HasNonEmpty(p, "last_tab_order")
          THEN <<Line("last_tab_order", p.last_tab_order)>> ELSE <<>>)
    \o (IF HasNonEmpty(p, "disabled_layouts")
          THEN <<Line("disabled_layouts", p.disabled_layouts)>> ELSE <<>>)
    \o (IF HasCustomNames(p) THEN <<Line("custom_tab_names", p.custom_tab_names)>> ELSE <<>>)
    \o (IF HasNonEmpty(p, "scan_directories") THEN ScanDirLines(p.scan_directories) ELSE <<>>)

\* tomllib.load raises TOMLDecodeError on a string with an unescaped quote.
LineParses(l) ==
    IF l.key = "custom_tab_names"
    THEN \A k \in DOMAIN l.val : l.val[k] # BadName
    ELSE TRUE

ContentParses(c) == \A i \in 1..Len(c) : LineParses(c[i])

RECURSIVE tomllib_load(_)
\* tomllib.load: the dict of the top-level keys of a content that parses.
tomllib_load(c) ==
    IF c = <<>> THEN EmptyDict
    ELSE LET d == tomllib_load(SubSeq(c, 1, Len(c) - 1))
             l == c[Len(c)]
         IN  CASE l.key = "#" -> d
               [] l.key = "last_layout" -> (l.key :> Some(l.val)) @@ d
               [] l.key = "scan_directories" ->
                    ("scan_directories" :>
                        Append(IF "scan_directories" \in DOMAIN d
                               THEN d.scan_directories ELSE <<>>, l.val)) @@ d
               [] OTHER -> (l.key :> l.val) @@ d

\* A line holding a byte sequence that is not UTF-8 (a file edited by hand
\* in another encoding).
NotUtf8Line == Line("#", "\\xff")

\* tomllib.load: b = fp.read(); s = b.decode().
Decodes(c) == \A i \in 1..Len(c) : c[i] # NotUtf8Line

\* A file that exists and cannot be opened: its content and the errno of
\* the OSError open() raises.
Unreadable(c) == <<c, "EACCES">>

open_raises(file) == Len(file) = 2

\* An exception that leaves load_preferences.
Raised(e) == [raised |-> e]

\* except (OSError, tomllib.TOMLDecodeError, KeyError, TypeError) with
\* ValueError added to the tuple.
uncaught_by_load_preferences_none(e) == FALSE

\* except (OSError, tomllib.TOMLDecodeError, KeyError, TypeError): what the
\* clause lets through.
uncaught_by_load_preferences(e) ==
    e \notin {"OSError", "TOMLDecodeError", "KeyError", "TypeError"}

\* The exception of the try block of load_preferences, None if it has none.
load_preferences_exception(file) ==
    IF open_raises(file) THEN Some("OSError")
    ELSE IF ~Decodes(file[1]) THEN Some("UnicodeDecodeError")
    ELSE IF ~ContentParses(file[1]) THEN Some("TOMLDecodeError")
    ELSE None

\* load_preferences on the preferences file (None when it does not exist).
load_preferences(file) ==
    IF file = None THEN PrefDefaults
    ELSE IF load_preferences_exception(file) # None
    THEN IF uncaught_by_load_preferences(load_preferences_exception(file)[1])
         THEN Raised(load_preferences_exception(file)[1])
         ELSE PrefDefaults
    ELSE LET parsed == tomllib_load(file[1])
             result == DictMerge(PrefDefaults, parsed)
         IN  IF "scan_directories" \notin DOMAIN parsed
             THEN ("scan_directories" :> DEFAULT_SCAN_DIRECTORIES) @@ result
             ELSE result

\* The file a previous session left behind.
OldPrefs == [PrefDefaults EXCEPT !.remember_choice = TRUE, !.last_layout = Some("dev")]

OldContent == save_preferences_content(OldPrefs)

Prefix(c, n) == SubSeq(c, 1, n)

\* A mistaken atomic_write_file that opens the target itself for writing.
atomic_write_step_in_place(target, temp, content) ==
    [target |-> Some(Prefix(content, Len(temp[1]) + 1)),
     temp   |-> Some(Prefix(content, Len(temp[1]) + 1))]

\* atomic_write_file, f.write(content) reaching the disk line by line: the
\* bytes go to the temp file made by mkstemp, the target is not touched.
atomic_write_step(target, temp, content) ==
    [target |-> target,
     temp   |-> Some(Prefix(content, Len(temp[1]) + 1))]

\* save_preferences(prefs) is called: the content is rendered and
\* atomic_write_file is entered.
save_preferences_call ==
    /\ awPc = "idle"
    /\ awPc' = "mkstemp"
    /\ savedPrefs' = prefs
    /\ awContent' = save_preferences_content(prefs)
    /\ awPrev' = fsTarget
    /\ awErr' = "none"
    /\ UNCHANGED <<prefs, fsTarget, fsTemp, loaded>>
    /\ UNCHANGED notPrefs

\* path.parent.mkdir and tempfile.mkstemp succeed: an empty temp file.
atomic_write_mkstemp ==
    /\ awPc = "mkstemp"
    /\ awPc' = "write"
    /\ fsTemp' = Some(<<>>)
    /\ UNCHANGED <<prefs, awErr, fsTarget, awContent, awPrev, savedPrefs, loaded>>
    /\ UNCHANGED notPrefs

\* The errno values an OSError of the file system carries in the model.
ErrnoValues == {"ENOSPC", "EACCES"}

\* A handler that re-raises every OSError as it came.
raised_from_handler_plain(errno) == errno

\* What the except clause of atomic_write_file raises for a caught OSError:
\* a new OSError("Disk full - cannot write to ...") for ENOSPC, else the
\* caught error itself.
raised_from_handler(errno) ==
    IF errno = "ENOSPC" THEN "Disk full" ELSE errno

\* os.unlink(temp_path) in the except clause; an OSError of the unlink is
\* swallowed and the temp file stays.
unlink_temp(temp, unlink_ok) == IF unlink_ok THEN None ELSE temp

\* mkdir or mkstemp raises OSError outside the try block: no temp file, the
\* error leaves as it came, save_preferences logs it.
atomic_write_mkstemp_fails ==
    /\ awPc = "mkstemp"
    /\ awPc' = "save_failed"
    /\ awErr' \in ErrnoValues
    /\ UNCHANGED <<prefs, fsTarget, fsTemp, awContent, awPrev, savedPrefs, loaded>>
    /\ UNCHANGED notPrefs

\* One more line of the content reaches the file being written.
atomic_write_write ==
    /\ awPc = "write"
    /\ Len(fsTemp[1]) < Len(awContent)
    /\ LET r == atomic_write_step(fsTarget, fsTemp, awContent)
       IN  fsTarget' = r.target /\ fsTemp' = r.temp
    /\ UNCHANGED <<prefs, awErr, awPc, awContent, awPrev, savedPrefs, loaded>>
    /\ UNCHANGED notPrefs

\* f.flush() and os.fsync() return: the whole content is in the temp file.
atomic_write_fsync ==
    /\ awPc = "write"
    /\ Len(fsTemp[1]) = Len(awContent)
    /\ awPc' = "rename"
    /\ UNCHANGED <<prefs, awErr, fsTarget, fsTemp, awContent, awPrev, savedPrefs, loaded>>
    /\ UNCHANGED notPrefs

\* os.rename(temp_path, path)
atomic_write_rename ==
    /\ awPc = "rename"
    /\ fsTarget' = fsTemp
    /\ fsTemp' = None
    /\ awPc' = "saved"
    /\ UNCHANGED <<prefs, awErr, awContent, awPrev, savedPrefs, loaded>>
    /\ UNCHANGED notPrefs

\* The write, the fsync or the rename raises OSError: the handler unlinks the
\* temp file (an unlink that fails leaves it) and re-raises; save_preferences
\* catches and logs.
atomic_write_fails ==
    /\ awPc \in {"write", "rename"}
    /\ \E unlink_ok \in BOOLEAN : fsTemp' = unlink_temp(fsTemp, unlink_ok)
    /\ \E errno \in ErrnoValues : awErr' = raised_from_handler(errno)
    /\ awPc' = "save_failed"
    /\ UNCHANGED <<prefs, fsTarget, awContent, awPrev, savedPrefs, loaded>>
    /\ UNCHANGED notPrefs

\* The process is killed inside atomic_write_file; the files stay as they are.
process_crash ==
    /\ awPc \in {"mkstemp", "write", "rename"}
    /\ awPc' = "crashed"
    /\ UNCHANGED <<prefs, awErr, fsTarget, fsTemp, awContent, awPrev, savedPrefs, loaded>>
    /\ UNCHANGED notPrefs

\* load_preferences() at the start of a session, on the file found there.
load_preferences_at_start ==
    /\ awPc = "idle"
    /\ loaded = None
    /\ loaded' = Some(load_preferences(fsTarget))
    /\ UNCHANGED <<prefs, awErr, fsTarget, fsTemp, awPc, awContent, awPrev, savedPrefs>>
    /\ UNCHANGED notPrefs

\* The next load_preferences(): the same session after a save, or the next
\* session after a crash.
load_preferences_call ==
    /\ awPc \in {"saved", "save_failed", "crashed"}
    /\ loaded = None
    /\ loaded' = Some(load_preferences(fsTarget))
    /\ UNCHANGED <<prefs, awErr, fsTarget, fsTemp, awPc, awContent, awPrev, savedPrefs>>
    /\ UNCHANGED notPrefs

(***************************************************************************)
(* Tabs (src/src/tab_utils.py).  A tab is a record [dir, name]: dir is the *)
(* raw path string, name is None when the config gives none.               *)
(***************************************************************************)
\* os.path.basename of the paths of the model; a path ending in "/" has an
\* empty basename, a path without "/" is its own basename.
basename(path) ==
    CASE path = "/w/a" -> "a"
      [] path = "/w/b" -> "b"
      [] path = "/w/c" -> "c"
      [] path = "/w/d" -> "d"
      [] path = "/w/e" -> "e"
      [] path = "/w/a/" -> ""
      [] path = "/h/p" -> "p"
      [] path = "/w/w1" -> "w1"
      [] path = "/w/w2" -> "w2"
      [] path = "/w/r" -> "r"
      [] path = "/w/u" -> "u"
      [] path = "/w" -> "w"
      [] path = "/x/w1" -> "w1"
      [] path = "/x/lnk" -> "lnk"
      [] path = "/x/gone" -> "gone"
      [] path = "/h" -> "h"
      [] OTHER -> path

\* expand_tab_path: os.path.expanduser, with the home directory /h.
expand_tab_path(path) ==
    CASE path = "~/p" -> "/h/p"
      [] path = "~/p/" -> "/h/p/"
      [] path = "~" -> "/h"
      [] OTHER -> path

\* get_tab_dir: tab.get("dir") or tab.get("path", "")
get_tab_dir(tab) == tab.dir

\* A resolution that takes the name stored under any key that is the dir of
\* the tab once ~ is expanded in both.
get_tab_display_name_expanding(tab, custom_tab_names) ==
    LET same == {k \in DOMAIN custom_tab_names :
                    /\ expand_tab_path(k) = expand_tab_path(tab.dir)
                    /\ custom_tab_names[k] # ""}
    IN  IF same # {}
        THEN custom_tab_names[CHOOSE k \in same : TRUE]
        ELSE IF tab.name # None /\ tab.name[1] # ""
             THEN tab.name[1]
             ELSE basename(expand_tab_path(tab.dir))

\* get_tab_display_name: custom_tab_names.get(path) or tab.get("name") or
\* os.path.basename(expand_tab_path(path))
get_tab_display_name(tab, custom_tab_names) ==
    IF tab.dir \in DOMAIN custom_tab_names /\ custom_tab_names[tab.dir] # ""
    THEN custom_tab_names[tab.dir]
    ELSE IF tab.name # None /\ tab.name[1] # ""
         THEN tab.name[1]
         ELSE basename(expand_tab_path(tab.dir))

(***************************************************************************)
(* run_swiftdialog (src/src/swiftdialog.py 100-180): the ways a dialog ends *)
(* without one of its actions, and the return code the caller is given.    *)
(***************************************************************************)
\* "cancel": the renderer exits with 2 (button 2); "timeout": subprocess.run
\* raises TimeoutExpired; "error": the renderer is missing or cannot be run.
AbortOutcomes == {"cancel", "timeout", "error"}

\* A run_swiftdialog that reports a timeout with the code of Cancel.
run_swiftdialog_code_timeout_as_cancel(outcome) ==
    CASE outcome = "cancel" -> 2
      [] outcome = "timeout" -> 2
      [] OTHER -> -1

\* run_swiftdialog: result.returncode, (4, None) for TimeoutExpired and
\* (-1, None) for OSError or a renderer that is not installed.
run_swiftdialog_code(outcome) ==
    CASE outcome = "cancel" -> 2
      [] outcome = "timeout" -> 4
      [] OTHER -> -1

(***************************************************************************)
(* Reorder dialog: show_tab_reorder_dialog and _reorder_tabs_by_numbers    *)
(* (src/src/tab_customization.py 1016-1144).                               *)
(*                                                                         *)
(* The renderer's output maps a select item's title (the tab's display     *)
(* name) to the chosen text, or to a dict holding it as selectedValue.  A  *)
(* text is [num, n]: the decimal text of n, or a text int() rejects.       *)
(***************************************************************************)
MaxTabs == 3

MaxSorts == 2

BigCount == 100

\* _reorder_tabs_by_numbers: the rank of a missing or malformed value.
DefaultRank == 999

NumText(n) == [num |-> TRUE, n |-> n]

BadText == [num |-> FALSE, n |-> 0]

NoEntry == [num |-> FALSE, n |-> -1]

AllTabs ==
    <<[dir |-> "/w/a", name |-> Some("A")], [dir |-> "/w/b", name |-> Some("B")],
      [dir |-> "/w/c", name |-> Some("C")], [dir |-> "/w/d", name |-> Some("D")],
      [dir |-> "/w/e", name |-> Some("E")]>>

BigTab(i) == [dir |-> "/w/t" \o ToString(i), name |-> Some("T" \o ToString(i))]

BigTabs == [i \in 1..BigCount |-> BigTab(i)]

\* The values offered for every item: str(n) for n in range(1, max_val + 1).
OfferedRanks(count) == 1..(count * 10)

\* The default of the item at 1-based position i: str((i + 1) * 10), 0-based.
DefaultPosition(i) == i * 10

\* The texts a user picks in the model: the first two defaults and the
\* largest offered value; or the renderer gives back a text that is no number.
PickedTexts(count) ==
    {NumText(n) : n \in {r \in OfferedRanks(count) : r \in {10, 20, count * 10}}} \cup {BadText}

DisplayNames(tabs, custom) == {get_tab_display_name(tabs[i], custom) : i \in 1..Len(tabs)}

\* A dict with the entries of f that are not NoEntry, each as a plain text
\* or wrapped as {"selectedValue": text}.
AsOutput(f, wrapped) ==
    [k \in {x \in DOMAIN f : f[x] # NoEntry} |->
        IF wrapped THEN [selectedValue |-> f[k]] ELSE f[k]]

\* The renderer's outputs for a small dialog: any text or no entry per title.
SmallOutputs(tabs, custom) ==
    {AsOutput(f, w) :
        f \in [DisplayNames(tabs, custom) -> PickedTexts(Len(tabs)) \cup {NoEntry}],
        w \in BOOLEAN}

\* The defaults of the dialog as shown, untouched.
DefaultTexts(tabs, custom) ==
    [k \in DisplayNames(tabs, custom) |->
        NumText(DefaultPosition(
            CHOOSE i \in 1..Len(tabs) :
                /\ get_tab_display_name(tabs[i], custom) = k
                /\ \A j \in (i + 1)..Len(tabs) : get_tab_display_name(tabs[j], custom) # k))]

\* The renderer's outputs for a large dialog: the defaults with the first or
\* the last item changed.
BigOutputs(tabs, custom) ==
    {AsOutput([DefaultTexts(tabs, custom) EXCEPT
                  ![get_tab_display_name(tabs[i], custom)] = t], FALSE) :
        i \in {1, Len(tabs)},
        t \in {NumText(Len(tabs) * 10), BadText, NoEntry}}

\* The values that lie halfway between two adjacent defaults.
FreeRanks(count) == {DefaultPosition(k) + 5 : k \in 1..(count - 1)}

\* The renderer's outputs for a small dialog in which one item was moved to a
\* free value between two adjacent defaults and the others were left alone.
MovedOutputs(tabs, custom) ==
    {AsOutput([DefaultTexts(tabs, custom) EXCEPT
                  ![get_tab_display_name(tabs[i], custom)] = NumText(v)], w) :
        i \in 1..Len(tabs), v \in FreeRanks(Len(tabs)), w \in BOOLEAN}

DialogOutputs(tabs, custom) ==
    IF Len(tabs) <= MaxTabs
    THEN SmallOutputs(tabs, custom) \cup MovedOutputs(tabs, custom)
    ELSE BigOutputs(tabs, custom)

\* int(raw) with its except (ValueError, TypeError) branch.
IntOrDefault(raw) == IF raw.num THEN raw.n ELSE DefaultRank

\* A rank lookup that knows the plain text form only.
RankOf_plain_only(tab, custom_tab_names, output) ==
    LET name == get_tab_display_name(tab, custom_tab_names)
    IN  IF name \notin DOMAIN output THEN DefaultRank
        ELSE LET raw == output[name]
             IN  IF "selectedValue" \in DOMAIN raw THEN DefaultRank ELSE IntOrDefault(raw)

\* _reorder_tabs_by_numbers: num of one tab.
RankOf(tab, custom_tab_names, output) ==
    LET name == get_tab_display_name(tab, custom_tab_names)
    IN  IF name \notin DOMAIN output THEN DefaultRank
        ELSE LET raw == output[name]
             IN  IF "selectedValue" \in DOMAIN raw
                 THEN IntOrDefault(raw.selectedValue)
                 ELSE IntOrDefault(raw)

\* pairs.sort(key=lambda x: x[0]); list.sort is stable: a pair lands after
\* the pairs of smaller key and after the earlier pairs of equal key.
SortPairs(pairs) ==
    LET n == Len(pairs)
        Before(i) == {j \in 1..n : \/ pairs[j][1] < pairs[i][1]
                                   \/ (pairs[j][1] = pairs[i][1] /\ j < i)}
    IN  [p \in 1..n |-> pairs[CHOOSE i \in 1..n : Cardinality(Before(i)) = p - 1]]

\* _reorder_tabs_by_numbers(tabs, custom_tab_names, output)
_reorder_tabs_by_numbers(tabs, custom_tab_names, output) ==
    LET pairs  == [i \in 1..Len(tabs) |-> <<RankOf(tabs[i], custom_tab_names, output), tabs[i]>>]
        sorted == SortPairs(pairs)
    IN  [i \in 1..Len(sorted) |-> sorted[i][2]]

\* A loop that a Sort ends.
reorder_loop_continues_never(return_code) == FALSE

\* show_tab_reorder_dialog: if return_code == 0: ... continue
reorder_loop_continues(return_code) == return_code = 0

\* show_tab_reorder_dialog is entered: one tab or none is returned as is.
show_tab_reorder_dialog_open ==
    /\ roPc = "open"
    /\ IF Len(roTabs) <= 1
       THEN roPc' = "returned" /\ roResult' = Some(roTabs) /\ roCurrent' = roCurrent
       ELSE roPc' = "dialog" /\ roResult' = roResult /\ roCurrent' = roTabs
    /\ UNCHANGED <<roTabs, roCustom, roIter, roLastOut>>
    /\ UNCHANGED notRo

\* return_code == 0, the Sort button: re-sort when there is an output, count
\* the iteration and show the dialog again.
show_tab_reorder_dialog_sort ==
    /\ roPc = "dialog"
    /\ roIter < MaxSorts
    /\ \E output \in {None} \cup {Some(o) : o \in DialogOutputs(roCurrent, roCustom)} :
          /\ roLastOut' = output
          /\ roCurrent' = IF output # None /\ DOMAIN output[1] # {}
                          THEN _reorder_tabs_by_numbers(roCurrent, roCustom, output[1])
                          ELSE roCurrent
    /\ roIter' = roIter + 1
    /\ roPc' = IF reorder_loop_continues(0) THEN "dialog" ELSE "returned"
    /\ UNCHANGED <<roTabs, roCustom, roResult>>
    /\ UNCHANGED notRo

\* The Sort button after MaxSorts sorts: the loop goes on as before, the
\* model no longer counts the iterations (MaxSorts + 1 stands for any
\* greater number).
show_tab_reorder_dialog_sort_uncounted ==
    /\ roPc = "dialog"
    /\ roIter >= MaxSorts
    /\ \E output \in {None} \cup {Some(o) : o \in DialogOutputs(roCurrent, roCustom)} :
          /\ roLastOut' = output
          /\ roCurrent' = IF output # None /\ DOMAIN output[1] # {}
                          THEN _reorder_tabs_by_numbers(roCurrent, roCustom, output[1])
                          ELSE roCurrent
    /\ roIter' = MaxSorts + 1
    /\ roPc' = IF reorder_loop_continues(0) THEN "dialog" ELSE "returned"
    /\ UNCHANGED <<roTabs, roCustom, roResult>>
    /\ UNCHANGED notRo

\* return_code == 3, the Finalize (info) button: the current order.
show_tab_reorder_dialog_finalize ==
    /\ roPc = "dialog"
    /\ roPc' = "returned"
    /\ roResult' = Some(roCurrent)
    /\ dlgRc' = 3
    /\ UNCHANGED <<roTabs, roCustom, roCurrent, roIter, roLastOut>>
    /\ UNCHANGED <<notDialog, selVars>>

\* Any other return code (Cancel, timeout, error): None.
show_tab_reorder_dialog_cancel ==
    /\ roPc = "dialog"
    /\ roPc' = "returned"
    /\ roResult' = None
    /\ \E outcome \in AbortOutcomes : dlgRc' = run_swiftdialog_code(outcome)
    /\ UNCHANGED <<roTabs, roCustom, roCurrent, roIter, roLastOut>>
    /\ UNCHANGED <<notDialog, selVars>>

(***************************************************************************)
(* Tab selection flow: show_tab_customization, the SwiftDialog main        *)
(* dialog, the category selector and the paginated rename dialog           *)
(* (src/src/tab_customization.py 50-1008, src/src/swiftdialog.py 184-209). *)
(***************************************************************************)
\* path.replace(str(Path.home()), "~") with the home directory /h.
path_display(path) ==
    CASE path = "/h/p" -> "~/p"
      [] path = "/h" -> "~"
      [] OTHER -> path

\* format_tab_label: f"{name} ({path_display})", kept as the pair of its parts.
format_tab_label(path, name) == <<name, path_display(path)>>

\* str(Path(path).expanduser().parent)
ParentOf(path) ==
    CASE path = "/h/p" -> "/h"
      [] path \in {"/w", "/h"} -> "/"
      [] OTHER -> "/w"

\* The place of name.lower() in the lexicographic order of the names in use.
LowerRank(name) ==
    CASE name \in {"a", "A"} -> 1
      [] name \in {"b", "B"} -> 2
      [] name \in {"c", "C"} -> 3
      [] name \in {"d", "D"} -> 4
      [] name = "h" -> 5
      [] name = "n1" -> 6
      [] name \in {"p", "P"} -> 7
      [] name = "r" -> 8
      [] name = "r.wt-f1" -> 9
      [] name = "r.wt-f2" -> 10
      [] name = "u" -> 11
      [] name = "w" -> 12
      [] name = "w1" -> 13
      [] name = "w2" -> 14
      [] name = "x" -> 15
      [] OTHER -> 0

\* str.strip() of the texts typed in the model.
Strip(text) ==
    CASE text = " x " -> "x"
      [] text = "  " -> ""
      [] OTHER -> text

Max(a, b) == IF a >= b THEN a ELSE b

Min(a, b) == IF a <= b THEN a ELSE b

\* A pre-check rule that looks at the display name only.
_is_tab_selected_name_only(tab, category, remembered_selections, custom_tab_names) ==
    IF remembered_selections = None
    THEN category \in {"layout", "worktree"}
    ELSE get_tab_display_name(tab, custom_tab_names) \in remembered_selections[1]

\* _is_tab_selected
_is_tab_selected(tab, category, remembered_selections, custom_tab_names) ==
    IF remembered_selections = None
    THEN category \in {"layout", "worktree"}
    ELSE \/ get_tab_display_name(tab, custom_tab_names) \in remembered_selections[1]
         \/ get_tab_dir(tab) \in remembered_selections[1]

\* One checkbox of the main dialog with its all_items entry.
CheckboxEntry(tab, category_key, custom_tab_names, remembered_selections) ==
    [label    |-> format_tab_label(get_tab_dir(tab), get_tab_display_name(tab, custom_tab_names)),
     tab      |-> tab,
     category |-> category_key,
     checked  |-> _is_tab_selected(tab, category_key, remembered_selections, custom_tab_names)]

\* _build_category_checkboxes: the entries of a flat category, in list order.
_build_category_checkboxes(items, category_key, custom_tab_names, remembered_selections) ==
    [i \in 1..Len(items) |->
        CheckboxEntry(items[i], category_key, custom_tab_names, remembered_selections)]

\* _build_grouped_category_checkboxes: groups by parent directory in order of
\* first appearance, sorted by the parent's name, each group sorted by display
\* name; both sorts are stable.
_build_grouped_category_checkboxes(items, category_key, custom_tab_names, remembered_selections) ==
    LET parent(i) == ParentOf(get_tab_dir(items[i]))
        first(i)  == CHOOSE j \in 1..Len(items) :
                        /\ parent(j) = parent(i)
                        /\ \A k \in 1..(j - 1) : parent(k) # parent(i)
        key(i)    == LowerRank(basename(parent(i))) * 10000 + first(i) * 100
                        + LowerRank(get_tab_display_name(items[i], custom_tab_names))
        sorted    == SortPairs([i \in 1..Len(items) |-> <<key(i), items[i]>>])
    IN  [i \in 1..Len(sorted) |->
            CheckboxEntry(sorted[i][2], category_key, custom_tab_names, remembered_selections)]

\* show_tab_customization_swiftdialog: the checkboxes of the dialog it shows.
MainDialogBoxes(inputs, last_tab_selections, custom_tab_names) ==
    LET remembered_selections ==
            IF last_tab_selections # None /\ last_tab_selections[1] # <<>>
            THEN Some(Range(last_tab_selections[1]))
            ELSE None
    IN  _build_category_checkboxes(inputs.layout_tabs, "layout",
                                   custom_tab_names, remembered_selections)
        \o _build_category_checkboxes(inputs.worktrees, "worktree",
                                      custom_tab_names, remembered_selections)
        \o _build_grouped_category_checkboxes(inputs.additional_repos, "discovered",
                                              custom_tab_names, remembered_selections)
        \o _build_category_checkboxes(inputs.untracked_folders, "untracked",
                                      custom_tab_names, remembered_selections)

Pending == [kind |-> "pending", tabs |-> <<>>]

NoneResult == [kind |-> "None", tabs |-> <<>>]

NoOutput == [ok |-> TRUE, checked |-> {}]

\* A main dialog that maps the Back button to a plain cancel.
show_tab_customization_swiftdialog_back_as_cancel(returncode, output, all_items) ==
    IF returncode = 3 THEN [kind |-> "RENAME_REQUESTED", tabs |-> <<>>]
    ELSE IF returncode \notin {0, 5} THEN NoneResult
    ELSE IF ~output.ok THEN NoneResult
    ELSE LET sel == SelectSeq(all_items, LAMBDA it : it.label \in output.checked)
         IN  [kind |-> "tabs", tabs |-> [i \in 1..Len(sel) |-> sel[i].tab]]

\* show_tab_customization_swiftdialog: its return value for a return code and
\* a parsed stdout.  A raised TimeoutExpired is code -4 and a raised OSError
\* or SubprocessError is code -1 here; both return None like any other code.
show_tab_customization_swiftdialog(returncode, output, all_items) ==
    IF returncode = 2 THEN [kind |-> "BACK_TO_SELECTOR", tabs |-> <<>>]
    ELSE IF returncode = 3 THEN [kind |-> "RENAME_REQUESTED", tabs |-> <<>>]
    ELSE IF returncode = 4 THEN NoneResult
    ELSE IF returncode \notin {0, 5} THEN NoneResult
    ELSE IF ~output.ok THEN NoneResult
    ELSE LET sel == SelectSeq(all_items, LAMBDA it : it.label \in output.checked)
         IN  [kind |-> "tabs", tabs |-> [i \in 1..Len(sel) |-> sel[i].tab]]

\* The parsed stdout of the main dialog: the labels switched on, or text that
\* json.loads rejects.
MainOutputs(all_items) ==
    {[ok |-> FALSE, checked |-> {}]}
    \cup {[ok |-> TRUE, checked |-> c] : c \in SUBSET {all_items[i].label : i \in 1..Len(all_items)}}

CategoryNames == <<"Layout Tabs", "Git Worktrees", "Additional Repos", "Untracked Folders">>

\* show_tab_customization: the items of one source list, tagged.
TaggedItems(source_list, category_name, custom_tab_names) ==
    [i \in 1..Len(source_list) |->
        [dir      |-> get_tab_dir(source_list[i]),
         name     |-> get_tab_display_name(source_list[i], custom_tab_names),
         category |-> category_name]]

\* show_tab_customization: items_to_rename, without the items that have no path.
items_to_rename(inputs, custom_tab_names) ==
    SelectSeq(TaggedItems(inputs.layout_tabs, CategoryNames[1], custom_tab_names)
              \o TaggedItems(inputs.worktrees, CategoryNames[2], custom_tab_names)
              \o TaggedItems(inputs.additional_repos, CategoryNames[3], custom_tab_names)
              \o TaggedItems(inputs.untracked_folders, CategoryNames[4], custom_tab_names),
              LAMBDA it : it.dir # "")

ItemsOfCategory(items, category_name) ==
    SelectSeq(items, LAMBDA it : it.category = category_name)

\* show_tab_customization: the category list with counts.
CategoryCounts(items) ==
    [i \in 1..4 |-> [name |-> CategoryNames[i],
                     count |-> Len(ItemsOfCategory(items, CategoryNames[i]))]]

\* A selector that offers every category, the empty ones too.
AllCategories(categories) == categories

\* show_category_selector_dialog: the categories it offers.
NonEmptyCategories(categories) == SelectSeq(categories, LAMBDA c : c.count > 0)

\* The label f"{name} ({count} items)", kept as the pair of its parts.
CategoryLabel(cat) == <<cat.name, cat.count>>

\* show_category_selector_dialog: output is None or the set of labels that are
\* switched on, read in the order of the checkboxes.
show_category_selector_dialog(categories, return_code, output) ==
    LET non_empty == NonEmptyCategories(categories)
        chosen    == {i \in 1..Len(non_empty) :
                         output # None /\ CategoryLabel(non_empty[i]) \in output[1]}
    IN  IF non_empty = <<>> THEN None
        ELSE IF return_code # 0 THEN None
        ELSE IF output = None \/ output[1] = {} THEN None
        ELSE IF chosen = {} THEN None
        ELSE Some(non_empty[CHOOSE i \in chosen : \A j \in chosen : i <= j].name)

\* The outputs of the category selector: nothing, or at most two switches on.
CategoryOutputs(categories) ==
    LET labels == {CategoryLabel(NonEmptyCategories(categories)[i]) :
                      i \in 1..Len(NonEmptyCategories(categories))}
    IN  {None} \cup {Some(c) : c \in {x \in SUBSET labels : Cardinality(x) <= 2}}

per_item_height == 45

message_overhead == 200

buttons_height == 60

MinItemsPerPage == 3

\* show_rename_tabs_dialog: max_items_per_page
max_items_per_page(max_dialog_height) ==
    Max((max_dialog_height - message_overhead - buttons_height) \div per_item_height,
        MinItemsPerPage)

\* A page count that rounds down and adds one.
total_pages_floor(total_items, per_page) == total_items \div per_page + 1

\* show_rename_tabs_dialog: total_pages
total_pages(total_items, per_page) == (total_items + per_page - 1) \div per_page

\* show_rename_tabs_dialog: page_items = items[start:end]
page_items(items, current_page, per_page) ==
    SubSeq(items, current_page * per_page + 1,
           Min(current_page * per_page + per_page, Len(items)))

\* A pre-fill that prefers the stored custom name to the edit of this session.
current_name_custom_first(all_results, custom_names, item) ==
    IF item.dir \in DOMAIN custom_names /\ custom_names[item.dir] # ""
    THEN custom_names[item.dir]
    ELSE IF item.dir \in DOMAIN all_results /\ all_results[item.dir] # ""
         THEN all_results[item.dir]
         ELSE item.name

\* show_rename_tabs_dialog: all_results.get(path) or custom_names.get(path) or
\* item.get("name", ...); every item of show_tab_customization has a name.
current_name(all_results, custom_names, item) ==
    IF item.dir \in DOMAIN all_results /\ all_results[item.dir] # ""
    THEN all_results[item.dir]
    ELSE IF item.dir \in DOMAIN custom_names /\ custom_names[item.dir] # ""
         THEN custom_names[item.dir]
         ELSE item.name

\* show_rename_tabs_dialog: the text fields of a page, value by title.
textfields(items, all_results, custom_names) ==
    [t \in {path_display(items[i].dir) : i \in 1..Len(items)} |->
        current_name(all_results, custom_names,
            items[CHOOSE i \in 1..Len(items) :
                     /\ path_display(items[i].dir) = t
                     /\ \A j \in (i + 1)..Len(items) : path_display(items[j].dir) # t])]

\* An edit collection that drops a blank field instead of recording the
\* basename for it.
collect_page_edits_skip_blank(all_results, items, output) ==
    IF output = None \/ DOMAIN output[1] = {} THEN all_results
    ELSE LET edited == {items[i].dir : i \in {j \in 1..Len(items) :
                                /\ path_display(items[j].dir) \in DOMAIN output[1]
                                /\ Strip(output[1][path_display(items[j].dir)]) # ""}}
         IN  [path \in edited |-> Strip(output[1][path_display(path)])] @@ all_results

\* show_rename_tabs_dialog: all_results after the edits of a page are
\* collected, whatever the return code.
collect_page_edits(all_results, items, output) ==
    IF output = None \/ DOMAIN output[1] = {} THEN all_results
    ELSE LET edited == {items[i].dir : i \in {j \in 1..Len(items) :
                                path_display(items[j].dir) \in DOMAIN output[1]}}
         IN  [path \in edited |->
                 IF Strip(output[1][path_display(path)]) # ""
                 THEN Strip(output[1][path_display(path)])
                 ELSE basename(path)] @@ all_results

\* The texts a user leaves in a field of the rename dialog.
TypedTexts == {" x ", ""}

\* A field the user filled with blanks only.
BlankText == "  "

\* The outputs of a rename page: none, a text for every field, or every field
\* filled with blanks.
RenameOutputs(items) ==
    LET fields == {path_display(items[i].dir) : i \in 1..Len(items)}
    IN  {None} \cup {Some(o) : o \in [fields -> TypedTexts] \cup {[f \in fields |-> BlankText]}}

\* The raw texts last submitted per path, with those of a page's output.
SubmittedWith(submitted, items, output) ==
    IF output = None THEN submitted
    ELSE [path \in {items[i].dir : i \in {j \in 1..Len(items) :
                        path_display(items[j].dir) \in DOMAIN output[1]}} |->
             output[1][path_display(path)]] @@ submitted

\* A cancel that throws the accumulated edits away.
cancel_return_discard(all_results) == None

\* show_rename_tabs_dialog: return all_results if all_results else None, on
\* Cancel or any other return code.
cancel_return(all_results) ==
    IF DOMAIN all_results = {} THEN None ELSE Some(all_results)

\* show_rename_tabs_dialog: return all_results if all_results else None, after
\* Save on the last page.
save_return(all_results) ==
    IF DOMAIN all_results = {} THEN None ELSE Some(all_results)

\* show_tab_customization: custom_tab_names.update(new_names) if new_names.
custom_after_rename(custom_tab_names, new_names) ==
    IF new_names # None /\ DOMAIN new_names[1] # {}
    THEN DictMerge(custom_tab_names, new_names[1])
    ELSE custom_tab_names

\* main.save_custom_names through save_preferences_callback, if new_names.
saved_after_rename(saved, custom_tab_names, new_names) ==
    IF new_names # None /\ DOMAIN new_names[1] # {}
    THEN Some(DictMerge(custom_tab_names, new_names[1]))
    ELSE saved

NoInputs == [layout_tabs |-> <<>>, worktrees |-> <<>>, additional_repos |-> <<>>,
             untracked_folders |-> <<>>]

NoRenameSession ==
    /\ rnCategory = None /\ rnCustom = EmptyDict /\ rnPage = 0 /\ rnAll = EmptyDict
    /\ rnShown = EmptyDict /\ rnSubmitted = EmptyDict /\ rnReturn = None /\ rnHow = "none"

\* The output of a main dialog whose switches were left as shown.
UntouchedOutput(all_items) ==
    [ok |-> TRUE,
     checked |-> {all_items[i].label : i \in {j \in 1..Len(all_items) : all_items[j].checked}}]

\* show_tab_customization_swiftdialog returns to the loop of
\* show_tab_customization: the loop returns the result, or goes on to the
\* category selector when a rename was requested.
MainSelectReturns(returncode, output) ==
    LET result == show_tab_customization_swiftdialog(returncode, output, selBoxes)
    IN  /\ selPc = "MAIN_SELECT"
        /\ selRc' = returncode
        /\ selOut' = output
        /\ selResult' = IF result.kind = "RENAME_REQUESTED" THEN Pending ELSE result
        /\ selPc' = CASE result.kind = "RENAME_REQUESTED" -> "RENAME_CATEGORY_PICK"
                      [] result.kind = "BACK_TO_SELECTOR" -> "BACK_TO_PARENT"
                      [] result.kind = "tabs" -> "CONFIRMED"
                      [] OTHER -> "CANCELLED"
        /\ rnCategory' = None /\ rnCustom' = EmptyDict /\ rnPage' = 0 /\ rnAll' = EmptyDict
        /\ rnShown' = EmptyDict /\ rnSubmitted' = EmptyDict /\ rnReturn' = None
        /\ rnHow' = "none"
        /\ UNCHANGED <<selIn, selLast, selCustom, selHeight, selBoxes, selSaved>>
        /\ UNCHANGED notSel

\* "Open Selected" (code 0, or 5 when the dialog is closed by its command file).
main_select_open ==
    /\ selPc = "MAIN_SELECT"
    /\ \E returncode \in {0, 5} :
          \E output \in IF returncode = 0 THEN MainOutputs(selBoxes)
                                          ELSE {UntouchedOutput(selBoxes)} :
              MainSelectReturns(returncode, output)

\* "Back" (button 2).
main_select_back ==
    /\ selPc = "MAIN_SELECT"
    /\ MainSelectReturns(2, NoOutput)

\* "Rename Tabs" (info button).
main_select_rename ==
    /\ selPc = "MAIN_SELECT"
    /\ MainSelectReturns(3, NoOutput)

\* Timeout, any other return code, or a failure to run the renderer.
main_select_abort ==
    /\ selPc = "MAIN_SELECT"
    /\ \E returncode \in {4, 1, -1, -4} : MainSelectReturns(returncode, NoOutput)

\* show_category_selector_dialog returns to show_tab_customization, which
\* opens the rename dialog on its first page or shows the main dialog again.
CategoryPickReturns(return_code, output) ==
    LET items    == items_to_rename(selIn, selCustom)
        selected == show_category_selector_dialog(CategoryCounts(items), return_code, output)
        per_page == max_items_per_page(selHeight)
    IN  /\ selPc = "RENAME_CATEGORY_PICK"
        /\ IF selected # None
           THEN /\ selPc' = "RENAME_PAGE"
                /\ rnCategory' = selected
                /\ rnCustom' = selCustom
                /\ rnShown' = textfields(page_items(ItemsOfCategory(items, selected[1]), 0, per_page),
                                         EmptyDict, selCustom)
                /\ rnHow' = "none"
                /\ selBoxes' = selBoxes
           ELSE /\ selPc' = "MAIN_SELECT"
                /\ rnCategory' = None
                /\ rnCustom' = EmptyDict
                /\ rnShown' = EmptyDict
                /\ rnHow' = "no_category"
                /\ selBoxes' = MainDialogBoxes(selIn, selLast, selCustom)
        /\ rnPage' = 0 /\ rnAll' = EmptyDict /\ rnSubmitted' = EmptyDict /\ rnReturn' = None
        /\ UNCHANGED <<selIn, selLast, selCustom, selHeight, selRc, selOut, selResult, selSaved>>
        /\ dlgRc' = return_code
        /\ UNCHANGED <<notDialog, roVars>>

\* "Edit Selected" with a category switched on.
category_pick_chosen ==
    /\ selPc = "RENAME_CATEGORY_PICK"
    /\ \E output \in CategoryOutputs(CategoryCounts(items_to_rename(selIn, selCustom))) :
          CategoryPickReturns(0, output)
    /\ selPc' = "RENAME_PAGE"

\* No category: nothing switched on, Cancel, timeout or renderer failure.
category_pick_none ==
    /\ selPc = "RENAME_CATEGORY_PICK"
    /\ \E return_code \in {0} \cup {run_swiftdialog_code(outcome) : outcome \in AbortOutcomes} :
          \E output \in IF return_code \in {0, 2}
                        THEN CategoryOutputs(CategoryCounts(items_to_rename(selIn, selCustom)))
                        ELSE {None} :
              CategoryPickReturns(return_code, output)
    /\ selPc' = "MAIN_SELECT"

\* A Back that leaves the dialog on the page it was on.
previous_page_stay(current_page) == current_page

\* show_rename_tabs_dialog: current_page = max(0, current_page - 1)
previous_page(current_page) == Max(0, current_page - 1)

\* The items of the rename dialog that is open.
RenameItems == ItemsOfCategory(items_to_rename(selIn, rnCustom), rnCategory[1])

RenamePerPage == max_items_per_page(selHeight)

RenameShownItems == page_items(RenameItems, rnPage, RenamePerPage)

RenameIsLastPage == rnPage + 1 >= total_pages(Len(RenameItems), RenamePerPage)

\* One pass of the loop of show_tab_customization's rename dialog: the page
\* returns, its edits are collected, and the dialog moves to another page or
\* returns to show_tab_customization, which commits the names it got and
\* shows the main dialog again.
RenamePageReturns(return_code, output) ==
    LET all_results == collect_page_edits(rnAll, RenameShownItems, output)
        stays       == (return_code = 0 /\ ~RenameIsLastPage) \/ return_code = 3
        next_page   == IF return_code = 0 THEN rnPage + 1 ELSE previous_page(rnPage)
        new_names   == IF return_code = 0 THEN save_return(all_results)
                                          ELSE cancel_return(all_results)
    IN  /\ selPc = "RENAME_PAGE"
        /\ rnAll' = all_results
        /\ rnSubmitted' = SubmittedWith(rnSubmitted, RenameShownItems, output)
        /\ IF stays
           THEN /\ rnPage' = next_page
                /\ rnShown' = textfields(page_items(RenameItems, next_page, RenamePerPage),
                                         all_results, rnCustom)
                /\ UNCHANGED <<selPc, rnReturn, rnHow, selCustom, selSaved, selBoxes>>
           ELSE /\ rnReturn' = new_names
                /\ rnHow' = IF return_code = 0 THEN "save" ELSE "cancel"
                /\ selCustom' = custom_after_rename(selCustom, new_names)
                /\ selSaved' = saved_after_rename(selSaved, selCustom, new_names)
                /\ selPc' = "MAIN_SELECT"
                /\ selBoxes' = MainDialogBoxes(selIn, selLast, selCustom')
                /\ rnPage' = 0
                /\ rnShown' = EmptyDict
        /\ UNCHANGED <<selIn, selLast, selHeight, selRc, selOut, selResult, rnCategory, rnCustom>>
        /\ dlgRc' = IF stays THEN dlgRc ELSE return_code
        /\ UNCHANGED <<notDialog, roVars>>

\* "Next" on a page that is not the last.
rename_page_next ==
    /\ selPc = "RENAME_PAGE"
    /\ ~RenameIsLastPage
    /\ \E output \in RenameOutputs(RenameShownItems) : RenamePageReturns(0, output)

\* "Save" on the last page.
rename_page_save ==
    /\ selPc = "RENAME_PAGE"
    /\ RenameIsLastPage
    /\ \E output \in RenameOutputs(RenameShownItems) : RenamePageReturns(0, output)

\* "Back" (info button).
rename_page_back ==
    /\ selPc = "RENAME_PAGE"
    /\ \E output \in RenameOutputs(RenameShownItems) : RenamePageReturns(3, output)

\* "Cancel", timeout or renderer failure; run_swiftdialog gives no output for
\* the last two.
rename_page_cancel ==
    /\ selPc = "RENAME_PAGE"
    /\ \E return_code \in {run_swiftdialog_code(outcome) : outcome \in AbortOutcomes} :
          \E output \in IF return_code = 2 THEN RenameOutputs(RenameShownItems) ELSE {None} :
              RenamePageReturns(return_code, output)

(***************************************************************************)
(* Discovery: discover_all_directories and discover_all_worktrees          *)
(* (src/src/selector.py 386-649).                                          *)
(*                                                                         *)
(* The scan root /w holds the children ChildNames; each is a file or a     *)
(* directory, and a directory holds no .git, a .git file or a .git         *)
(* directory.  Linked worktrees live under /x, where lnk is a symbolic     *)
(* link to w1 and gone is a directory that no longer exists.               *)
(***************************************************************************)
MaxRepos == 2

MaxLinked == 2

\* base_dir.iterdir(), in the order the file system gives.
ChildNames == <<"r1", ".h", "r2", ".c">>

FsEntries ==
    {[is_dir |-> FALSE, git |-> "none"]}
    \cup {[is_dir |-> TRUE, git |-> g] : g \in {"none", "file", "dir"}}

\* base_dir.exists()
\* "/wl" is a symbolic link to "/w".
RootExists(base_dir) == base_dir \in {"/w", "/wl"}

\* child.name.startswith(".")
IsHiddenName(name) == name \in {".h", ".c"}

\* The place of a name in the order of str.
NameRank(name) ==
    CASE name = ".c" -> 1
      [] name = ".h" -> 2
      [] name = "r1" -> 3
      [] name = "r2" -> 4
      [] OTHER -> 0

\* Path.resolve(): lnk is a symbolic link to w1.
Resolve(path) ==
    CASE path = "/x/lnk" -> "/x/w1"
      [] path = "/wl" -> "/w"
      [] path = "/wl/r1" -> "/w/r1"
      [] path = "/wl/r2" -> "/w/r2"
      [] path = "/wl/.h" -> "/w/.h"
      [] path = "/wl/.c" -> "/w/.c"
      [] OTHER -> path

\* Path.is_dir()
IsDir(path) == path # "/x/gone"

RECURSIVE ChildrenOf(_)
\* The children of the scan directories that exist, as name and str(child).
ChildrenOf(scan_directories) ==
    IF scan_directories = <<>> THEN <<>>
    ELSE (IF RootExists(Head(scan_directories))
          THEN [i \in 1..Len(ChildNames) |->
                   [name |-> ChildNames[i],
                    dir  |-> Head(scan_directories) \o "/" \o ChildNames[i]]]
          ELSE <<>>)
         \o ChildrenOf(Tail(scan_directories))

\* A repo test that leaves hidden directories out.
child_is_repo_unless_hidden(child, exclude_dirs, fs) ==
    /\ fs[child.name].is_dir
    /\ child.dir \notin exclude_dirs
    /\ ~IsHiddenName(child.name)
    /\ fs[child.name].git = "dir"

\* discover_all_directories: the child is appended to git_repos.
child_is_repo(child, exclude_dirs, fs) ==
    /\ fs[child.name].is_dir
    /\ child.dir \notin exclude_dirs
    /\ fs[child.name].git # "none"
    /\ fs[child.name].git = "dir"

\* discover_all_directories: the child is appended to untracked.
child_is_untracked(child, exclude_dirs, fs) ==
    /\ fs[child.name].is_dir
    /\ child.dir \notin exclude_dirs
    /\ fs[child.name].git = "none"
    /\ ~IsHiddenName(child.name)

\* sorted(items, key=lambda x: x["name"])
SortedByName(items) ==
    LET sorted == SortPairs([i \in 1..Len(items) |-> <<NameRank(items[i].name), items[i]>>])
    IN  [i \in 1..Len(sorted) |-> sorted[i][2]]

\* discover_all_directories(scan_directories, exclude_dirs)
discover_all_directories(scan_directories, exclude_dirs, fs) ==
    LET children == ChildrenOf(scan_directories)
    IN  [git_repos |-> SortedByName(SelectSeq(children,
                           LAMBDA c : child_is_repo(c, exclude_dirs, fs))),
         untracked |-> SortedByName(SelectSeq(children,
                           LAMBDA c : child_is_untracked(c, exclude_dirs, fs)))]

\* A line of `git worktree list --porcelain`: its first word and the rest.
PLine(kind, arg) == [kind |-> kind, arg |-> arg]

\* The linked worktrees git can report: path, branch ref (None when the HEAD
\* is detached) and whether git marks the entry prunable.
LinkedRecords ==
    {[path |-> "/x/w1", branch |-> Some("refs/heads/f1"), prunable |-> FALSE],
     [path |-> "/x/lnk", branch |-> None, prunable |-> FALSE],
     [path |-> "/x/gone", branch |-> Some("refs/heads/fix/f2"), prunable |-> TRUE],
     [path |-> "/x/gone", branch |-> None, prunable |-> FALSE],
     [path |-> "/x/w1", branch |-> Some("refs/heads/fix/f2"), prunable |-> TRUE]}

\* The lines git prints for one worktree.
RecordLines(rec) ==
    <<PLine("worktree", rec.path), PLine("HEAD", "sha")>>
    \o (IF rec.branch # None THEN <<PLine("branch", rec.branch[1])>>
                             ELSE <<PLine("detached", "")>>)
    \o (IF rec.prunable THEN <<PLine("prunable", "gitdir file points to non-existent location")>>
                        ELSE <<>>)
    \o <<PLine("", "")>>

RECURSIVE ListingLines(_)
ListingLines(records) ==
    IF records = <<>> THEN <<>>
    ELSE RecordLines(Head(records)) \o ListingLines(Tail(records))

\* result.stdout.split("\n") of a repo: the main worktree first, then up to
\* MaxLinked linked worktrees.
PorcelainOutputs(repo) ==
    {ListingLines(<<[path |-> Resolve(repo.dir), branch |-> Some("refs/heads/main"), prunable |-> FALSE]>>
                  \o linked) : linked \in SeqsUpTo(LinkedRecords, MaxLinked)}

\* line.split("/")[-1]
LastComponent(ref) ==
    CASE ref = "refs/heads/f1" -> "f1"
      [] ref = "refs/heads/fix/f2" -> "f2"
      [] ref = "refs/heads/main" -> "main"
      [] OTHER -> ref

\* repo["name"][:2].upper()
Abbrev(name) ==
    CASE name = "r1" -> "R1"
      [] name = "r2" -> "R2"
      [] name = ".h" -> ".H"
      [] name = ".c" -> ".C"
      [] OTHER -> name

NoWorktree == [dir |-> "", parent |-> "", name |-> None, detached |-> FALSE]

\* A save that does not look at is_prunable.
SavedWorktreePrunableToo(current_worktree, is_prunable) ==
    IF current_worktree # NoWorktree /\ current_worktree.name # None
       /\ current_worktree.name[1] # ""
    THEN <<current_worktree>>
    ELSE <<>>

\* if current_worktree and current_worktree.get("name") and not is_prunable
SavedWorktree(current_worktree, is_prunable) ==
    IF current_worktree # NoWorktree /\ current_worktree.name # None
       /\ current_worktree.name[1] # "" /\ ~is_prunable
    THEN <<current_worktree>>
    ELSE <<>>

\* discover_all_worktrees: the parser state after one more line.  The state
\* is current_worktree ({} is NoWorktree), is_prunable and the worktrees
\* appended to discovered.
ParseLine(st, line, repo) ==
    IF line.kind = "worktree"
    THEN [current |-> IF Resolve(line.arg) = Resolve(repo.dir) THEN NoWorktree
                      ELSE IF ~IsDir(line.arg) THEN NoWorktree
                      ELSE [dir |-> line.arg, parent |-> repo.name,
                            name |-> None, detached |-> FALSE],
          is_prunable |-> FALSE,
          out |-> st.out \o SavedWorktree(st.current, st.is_prunable)]
    ELSE IF line.kind = "branch"
    THEN IF st.current # NoWorktree
         THEN [st EXCEPT !.current.name =
                  Some(Abbrev(repo.name) \o ".wt-" \o LastComponent(line.arg))]
         ELSE st
    ELSE IF line.kind = "detached" /\ line.arg = ""
    THEN IF st.current # NoWorktree
         THEN [st EXCEPT !.current.name =
                  Some(Abbrev(repo.name) \o ".wt-" \o basename(st.current.dir)),
                         !.current.detached = TRUE]
         ELSE st
    ELSE IF line.kind = "prunable"
    THEN [st EXCEPT !.is_prunable = TRUE]
    ELSE st

RECURSIVE ParseLines(_, _, _)
ParseLines(st, lines, repo) ==
    IF lines = <<>> THEN st
    ELSE ParseLines(ParseLine(st, Head(lines), repo), Tail(lines), repo)

\* discover_all_worktrees: what one repo's listing adds to discovered.
ParsePorcelain(lines, repo) ==
    LET st == ParseLines([current |-> NoWorktree, is_prunable |-> FALSE, out |-> <<>>],
                         lines, repo)
    IN  st.out \o SavedWorktree(st.current, st.is_prunable)

\* A deduplication key that takes the path as written.
seen_key_unresolved(dir) == dir

\* discover_all_worktrees: wt_dir = Path(wt["dir"]).resolve()
seen_key(dir) == Resolve(dir)

\* discover_all_worktrees: unique_worktrees, the first worktree of each key.
unique_worktrees(discovered) ==
    LET keep == {i \in 1..Len(discovered) :
                    \A j \in 1..(i - 1) : seen_key(discovered[j].dir) # seen_key(discovered[i].dir)}
        nth(k) == CHOOSE i \in keep : Cardinality({j \in keep : j < i}) = k - 1
    IN  [k \in 1..Cardinality(keep) |-> discovered[nth(k)]]

\* discover_all_directories(scan_directories, exclude_dirs) is called.
discover_all_directories_call ==
    /\ dsPc = "scan"
    /\ dsRepos' = discover_all_directories(dsRoots, dsExclude, dsFs).git_repos
    /\ dsUntracked' = discover_all_directories(dsRoots, dsExclude, dsFs).untracked
    /\ dsPc' = "worktrees"
    /\ dsIdx' = 1
    /\ UNCHANGED <<dsRoots, dsFs, dsExclude, dsDiscovered, dsWarned, dsWorktrees, dsListing>>
    /\ UNCHANGED notDs

\* discover_all_worktrees: git lists the worktrees of the next repo and the
\* listing is parsed.
worktree_list_parsed ==
    /\ dsPc = "worktrees"
    /\ dsIdx <= Len(dsRepos)
    /\ \E lines \in PorcelainOutputs(dsRepos[dsIdx]) :
          /\ dsListing' = lines
          /\ dsDiscovered' = dsDiscovered \o ParsePorcelain(lines, dsRepos[dsIdx])
    /\ dsIdx' = dsIdx + 1
    /\ UNCHANGED <<dsPc, dsRoots, dsFs, dsExclude, dsRepos, dsUntracked, dsWarned, dsWorktrees>>
    /\ UNCHANGED notDs

\* discover_all_worktrees: git exits non-zero (CalledProcessError) or takes
\* more than ten seconds (TimeoutExpired); a warning is logged for the repo
\* and the repo is passed over.
worktree_list_fails ==
    /\ dsPc = "worktrees"
    /\ dsIdx <= Len(dsRepos)
    /\ dsIdx' = dsIdx + 1
    /\ dsWarned' = dsWarned \cup {dsRepos[dsIdx].name}
    /\ UNCHANGED <<dsPc, dsRoots, dsFs, dsExclude, dsRepos, dsUntracked, dsDiscovered, dsWorktrees, dsListing>>
    /\ UNCHANGED notDs

\* discover_all_worktrees: subprocess.run raises an error that is neither
\* CalledProcessError nor TimeoutExpired (no git executable); it leaves the
\* function.
worktree_list_raises ==
    /\ dsPc = "worktrees"
    /\ dsIdx <= Len(dsRepos)
    /\ dsPc' = "raised"
    /\ UNCHANGED <<dsRoots, dsFs, dsExclude, dsIdx, dsRepos, dsUntracked, dsDiscovered, dsWarned, dsWorktrees, dsListing>>
    /\ UNCHANGED notDs

\* discover_all_worktrees: every repo is done; deduplicate and return.
discover_all_worktrees_return ==
    /\ dsPc = "worktrees"
    /\ dsIdx > Len(dsRepos)
    /\ dsWorktrees' = unique_worktrees(dsDiscovered)
    /\ dsPc' = "done"
    /\ UNCHANGED <<dsRoots, dsFs, dsExclude, dsIdx, dsRepos, dsUntracked, dsDiscovered, dsWarned,
                   dsListing>>
    /\ UNCHANGED notDs

(***************************************************************************)
(* Workspace file loading (src/src/config_loader.py 224-377).  A file is   *)
(* the sequence of its lines; a line is a record [kind, val, len, trail]:  *)
(* the text val of len characters followed by trail characters of white    *)
(* space.  kind "tab" is a [[tabs]] table with the dir val, "junk" is text *)
(* that is no TOML statement, "open" is a string that is not closed on its *)
(* line, "notutf8" is valid TOML with a byte sequence that is not UTF-8.   *)
(***************************************************************************)
CfgLine(kind, val, len, trail) == [kind |-> kind, val |-> val, len |-> len, trail |-> trail]

\* display_line = line_content[:50] + "..."
MaxDisplayLine == 50

\* The first line tomllib cannot take as a statement, 0 if there is none.
\* A string left open is an error on its line when a line follows it and an
\* error at the end of the document when it is the last line.
FirstBadLine(lines) ==
    LET bad == {i \in 1..Len(lines) : lines[i].kind \in {"junk", "open"}}
    IN  IF bad = {} THEN 0 ELSE CHOOSE i \in bad : \A j \in bad : i <= j

\* str(TOMLDecodeError): the text and the "(at line N, column M)" suffix,
\* or "(at end of document)" which names no line.
toml_error(lines) ==
    LET n == FirstBadLine(lines)
    IN  IF lines[n].kind = "open" /\ n = Len(lines)
        THEN [text |-> "Unterminated string", line |-> None]
        ELSE [text |-> "Invalid statement", line |-> Some(n)]

\* str.rstrip()
rstrip(line) == [line EXCEPT !.trail = 0]

\* line_content[:50] + "..." if len(line_content) > 50 else line_content;
\* the cut text is the record with the length 50 and the mark "...".
display_line(line_content) ==
    IF line_content.len > MaxDisplayLine
    THEN [line_content EXCEPT !.len = MaxDisplayLine, !.kind = "..."]
    ELSE line_content

\* extract_toml_error_context(error, file_path): the line number the
\* message names, that line of the file without trailing white space, and
\* the formatted message.
extract_toml_error_context(error, file) ==
    LET line_number == error.line
        line_content ==
            IF line_number # None /\ file # None
               /\ 0 < line_number[1] /\ line_number[1] <= Len(file[1])
            THEN Some(rstrip(file[1][line_number[1]]))
            ELSE None
    IN  [line_number  |-> line_number,
         line_content |-> line_content,
         formatted_message |->
            [line    |-> line_number,
             display |-> IF line_number # None /\ line_content # None
                            /\ line_content[1].len > 0
                         THEN Some(display_line(line_content[1])) ELSE None,
             details |-> error.text],
         raw_error    |-> error.text]

\* deep_merge(DEFAULT_CONFIG, user_config), of which the model keeps the
\* tabs: the [[tabs]] tables of the file, [] when it has none.
deep_merge_tabs(lines) ==
    LET tab_lines == SelectSeq(lines, LAMBDA l : l.kind = "tab")
    IN  [i \in 1..Len(tab_lines) |-> [dir |-> tab_lines[i].val, name |-> None]]

\* load_config_from_path: except tomllib.TOMLDecodeError
load_config_catches(e) == e = "TOMLDecodeError"

\* load_config_from_path: context={"config_path": ..., "line_number":
\* error_context["line_number"]}; the path is the same in every call.
parse_error_context(error_context) ==
    [line_number |-> error_context.line_number]

\* load_config_from_path(config_path): Result.ok(merged), Result.err(Error)
\* or an exception that leaves the function.
load_config_from_path(file) ==
    IF file = None
    THEN [success |-> FALSE,
          error |-> [error_type |-> "FILE_NOT_FOUND",
                     message |-> "Config file not found",
                     context |-> EmptyDict]]
    ELSE IF open_raises(file)
    THEN Raised("OSError")
    ELSE IF \E i \in 1..Len(file[1]) : file[1][i].kind = "notutf8"
    THEN IF load_config_catches("UnicodeDecodeError")
         THEN [success |-> FALSE,
               error |-> [error_type |-> "PARSE_ERROR",
                          message |-> "not UTF-8",
                          context |-> [line_number |-> None]]]
         ELSE Raised("UnicodeDecodeError")
    ELSE IF FirstBadLine(file[1]) # 0
    THEN LET error_context == extract_toml_error_context(toml_error(file[1]), file)
         IN  [success |-> FALSE,
              error |-> [error_type |-> "PARSE_ERROR",
                         message |-> error_context.formatted_message,
                         context |-> parse_error_context(error_context)]]
    ELSE [success |-> TRUE, value |-> [tabs |-> deep_merge_tabs(file[1])]]

\* main: config_result = load_config_from_path(selected_layout["path"])
load_config_from_path_call ==
    /\ cfgResult = None
    /\ mainPc = "idle"
    /\ cfgResult' = Some(load_config_from_path(cfgFile))
    /\ UNCHANGED <<cfgFile, createVars, dlgRc, wizVars, winVars, prefVars, dsVars, selVars, roVars, mainVars>>

(***************************************************************************)
(* main, the discovery it runs for the chosen workspace                    *)
(* (src/workspace-launcher.py 5085-5168): the declared tabs of the config  *)
(* are selIn.layout_tabs, the three discovered lists are added to selIn    *)
(* when show_tab_customization is called.                                  *)
(***************************************************************************)
\* Path(dir): a trailing slash is not part of a Path.
PathOf(dir) ==
    CASE dir = "/w/r1/" -> "/w/r1"
      [] OTHER -> dir

\* get_enabled_scan_directories: Path(scan_dir["path"]).expanduser() of the
\* enabled entries; the stored paths of the model are absolute.
get_enabled_scan_directories(p) ==
    LET enabled == SelectSeq(p.scan_directories, LAMBDA d : d.enabled)
    IN  [i \in 1..Len(enabled) |-> PathOf(enabled[i].path)]

\* main: layout_dirs = {Path(tab["dir"]).expanduser() for tab in tabs}
layout_dirs(tabs) == {PathOf(expand_tab_path(tabs[i].dir)) : i \in 1..Len(tabs)}

\* discover_git_repos: repos, _ = discover_all_directories(...)
discover_git_repos(scan_directories, exclude_dirs, fs) ==
    discover_all_directories(scan_directories, exclude_dirs, fs).git_repos

\* discover_untracked_folders: _, untracked = discover_all_directories(...)
discover_untracked_folders(scan_directories, exclude_dirs, fs) ==
    discover_all_directories(scan_directories, exclude_dirs, fs).untracked

\* main: [r for r in all_git_repos if Path(r["dir"]).expanduser() not in layout_dirs]
additional_repos(all_git_repos, dirs) ==
    SelectSeq(all_git_repos, LAMBDA r : PathOf(expand_tab_path(r.dir)) \notin dirs)

\* main: the enabled scan directories are read from the preferences and
\* all_git_repos = discover_git_repos(scan_directories, exclude_dirs=set());
\* discover_all_worktrees(all_git_repos) follows.
main_discover_git_repos ==
    /\ dsPc = "config_loaded"
    /\ dsRoots' = get_enabled_scan_directories(mainPrefs)
    /\ dsExclude' = layout_dirs(selIn.layout_tabs)
    /\ dsRepos' = discover_git_repos(dsRoots', {}, dsFs)
    /\ dsPc' = "worktrees"
    /\ dsIdx' = 1
    /\ UNCHANGED <<dsFs, dsUntracked, dsDiscovered, dsWarned, dsWorktrees, dsListing>>
    /\ UNCHANGED notDs

\* main after discover_all_worktrees returned: the untracked folders are
\* discovered with the layout dirs excluded; the declared tabs and the three
\* lists are what show_tab_customization is called with.
main_offers_items ==
    /\ dsPc = "done"
    /\ dsExclude = layout_dirs(selIn.layout_tabs)
    /\ dsRoots = get_enabled_scan_directories(mainPrefs)
    /\ dsUntracked' = discover_untracked_folders(dsRoots, dsExclude, dsFs)
    /\ selIn' = [layout_tabs       |-> selIn.layout_tabs,
                 worktrees         |-> dsWorktrees,
                 additional_repos  |-> additional_repos(dsRepos, dsExclude),
                 untracked_folders |-> dsUntracked']
    /\ dsPc' = "offered"
    /\ UNCHANGED <<dsRoots, dsFs, dsExclude, dsIdx, dsRepos, dsDiscovered, dsWarned, dsWorktrees, dsListing>>
    /\ UNCHANGED <<selPc, selLast, selCustom, selHeight, selBoxes, selRc, selOut,
                   selResult, selSaved,
                   rnCategory, rnCustom, rnPage, rnAll, rnShown, rnSubmitted, rnReturn, rnHow>>
    /\ UNCHANGED <<prefVars, roVars, mainVars, launchVars>>

(***************************************************************************)
(* main, the orchestrator (src/workspace-launcher.py 4766-5396): what it   *)
(* does with the result of a dialog and when it saves the preferences.     *)
(***************************************************************************)
\* str.rstrip("/")
rstrip_slash(path) ==
    CASE path = "/x/w1/" -> "/x/w1"
      [] path = "/w/a/" -> "/w/a"
      [] path = "/w/r1/" -> "/w/r1"
      [] path = "/h/p/" -> "/h/p"
      [] OTHER -> path

\* os.path.realpath: the path without a trailing slash, symbolic links
\* resolved.
realpath(path) == Resolve(rstrip_slash(path))

\* normalize_tab_path: realpath(expanduser(path)).rstrip("/")
normalize_tab_path(path) == rstrip_slash(realpath(expand_tab_path(path)))

MaxSaves == 4

\* main: len(all_tabs) > 1, the fewest tabs the dialog is shown for.
MinReorderTabs == 2

\* A save_preferences that lets the OSError of atomic_write_file through.
save_preferences_raises_on_failure(ok) == ~ok

\* save_preferences: except OSError as e: logger.error(...), nothing is
\* raised to the caller whether atomic_write_file succeeded (ok) or not.
save_preferences_raises(ok) == FALSE

\* The file save_preferences leaves behind: the rendered content, or the
\* file as it was when atomic_write_file raised OSError.
save_preferences_file(p, file, ok) ==
    IF ok THEN Some(save_preferences_content(p)) ELSE file

\* main assigns p to prefs and calls save_preferences(prefs), then goes on to
\* next_pc.
SavesPreferences(p, next_pc) ==
    /\ mainSaves < MaxSaves
    /\ mainSaves' = mainSaves + 1
    /\ mainPrefs' = p
    /\ savedPrefs' = p
    /\ \E ok \in BOOLEAN :
          /\ fsTarget' = save_preferences_file(p, fsTarget, ok)
          /\ awPc' = IF ok THEN "saved" ELSE "save_failed"
          /\ awErr' \in IF ok THEN {"none"}
                         ELSE {raised_from_handler(errno) : errno \in ErrnoValues}
          /\ mainPc' = IF save_preferences_raises(ok) THEN "aborted" ELSE next_pc
    /\ UNCHANGED <<prefs, fsTemp, awContent, awPrev, loaded>>

\* main: all_tabs after show_tab_reorder_dialog returned reordered.
all_tabs_after_reorder(all_tabs, reordered) ==
    IF reordered # None THEN reordered[1] ELSE all_tabs

\* main: prefs["last_tab_order"] = [normalize_tab_path(get_tab_dir(t)) for t
\* in all_tabs] if reordered is not None.
prefs_after_reorder(p, all_tabs, reordered) ==
    IF reordered # None
    THEN ("last_tab_order" :>
            [i \in 1..Len(reordered[1]) |->
                normalize_tab_path(get_tab_dir(reordered[1][i]))]) @@ p
    ELSE p

\* A caller that stores and saves the order whatever the dialog returned.
reorder_commits_always(reordered) == TRUE

\* main: if reordered is not None
reorder_commits(reordered) == reordered # None

\* main after show_tab_reorder_dialog returned, which it calls for more than
\* one tab: a list is taken as all_tabs, stored as last_tab_order and saved;
\* None leaves all_tabs and the preferences as they were.
main_reorder_returned ==
    /\ mainPc = "reorder"
    /\ roPc = "returned"
    /\ Len(roTabs) > 1
    /\ mainAllTabs' = all_tabs_after_reorder(mainAllTabs, roResult)
    /\ IF reorder_commits(roResult)
       THEN SavesPreferences(prefs_after_reorder(mainPrefs, mainAllTabs, roResult),
                             "tabs_ordered")
       ELSE /\ mainPc' = "tabs_ordered"
            /\ UNCHANGED <<mainPrefs, mainSaves, prefVars>>
    /\ UNCHANGED <<dsVars, selVars, roVars, launchVars>>

\* discover_layouts(): the names of the workspace files.
MainLayoutNames == {"dev", "ops"}

\* main: layouts = [layout for layout in all_layouts if layout["name"] not in
\* disabled_layouts]
visible_layouts(p) == {n \in MainLayoutNames : n \notin Range(p.disabled_layouts)}

\* main, top of the outer loop: the auto-open dialog when last_layout names a
\* visible workspace, the selector otherwise.
loop_top(p) ==
    IF HasLastLayout(p) /\ p.last_layout[1] \in visible_layouts(p)
    THEN "auto_open" ELSE "selector"

\* main: final_tabs.sort(key=order_map.get(normalize_tab_path(dir), 999)) if
\* saved_order and len(final_tabs) > 1.
apply_saved_order(final_tabs, p) ==
    IF "last_tab_order" \in DOMAIN p /\ p.last_tab_order # <<>> /\ Len(final_tabs) > 1
    THEN LET saved_order == p.last_tab_order
             order_map(d) ==
                 IF \E i \in 1..Len(saved_order) : normalize_tab_path(saved_order[i]) = d
                 THEN (CHOOSE i \in 1..Len(saved_order) :
                          /\ normalize_tab_path(saved_order[i]) = d
                          /\ \A j \in (i + 1)..Len(saved_order) :
                                normalize_tab_path(saved_order[j]) # d) - 1
                 ELSE DefaultRank
             sorted == SortPairs([i \in 1..Len(final_tabs) |->
                          <<order_map(normalize_tab_path(get_tab_dir(final_tabs[i]))),
                            final_tabs[i]>>])
         IN  [i \in 1..Len(sorted) |-> sorted[i][2]]
    ELSE final_tabs

\* A main that hands show_tab_customization no save_preferences_callback.
save_preferences_callback_missing == FALSE

\* main: save_preferences_callback=save_custom_names
save_preferences_callback_given == TRUE

\* main: prefs = load_preferences(), then the top of the outer loop.
main_load_preferences ==
    /\ mainPc = "start"
    /\ loaded' = Some(load_preferences(fsTarget))
    /\ mainPrefs' = load_preferences(fsTarget)
    /\ mainPc' = loop_top(mainPrefs')
    /\ UNCHANGED <<prefs, awErr, fsTarget, fsTemp, awPc, awContent, awPrev, savedPrefs>>
    /\ UNCHANGED <<mainAllTabs, mainSaves, dsVars, selVars, roVars, launchVars>>

\* show_auto_open_dialog returns: "open" goes on with the last workspace,
\* "cancel" returns, anything else shows the selector.
main_auto_open_returns ==
    /\ mainPc = "auto_open"
    /\ \E auto_result \in {"open", "cancel", "change"} :
          mainPc' = CASE auto_result = "open" -> "customize"
                      [] auto_result = "cancel" -> "returned"
                      [] OTHER -> "selector"
    /\ UNCHANGED <<mainPrefs, mainAllTabs, mainSaves, prefVars, dsVars, selVars, roVars, launchVars>>

\* show_layout_selector returns None, or one of the settings actions.
main_selector_other ==
    /\ mainPc = "selector"
    /\ \E selector_result \in {"None", "manage_directories", "manage_layouts"} :
          mainPc' = IF selector_result = "None" THEN "returned" ELSE selector_result
    /\ UNCHANGED <<mainPrefs, mainAllTabs, mainSaves, prefVars, dsVars, selVars, roVars, launchVars>>

\* show_layout_selector returns a workspace: last_layout is set and saved, the
\* workspace is loaded and its directories are discovered.
main_selector_chosen ==
    /\ mainPc = "selector"
    /\ \E name \in visible_layouts(mainPrefs) :
          SavesPreferences(("last_layout" :> Some(name)) @@ mainPrefs, "customize")
    /\ UNCHANGED <<mainAllTabs, dsVars, selVars, roVars, launchVars>>

\* show_directory_management returns: None, or a copy of prefs with the new
\* scan_directories, which becomes prefs and is saved.
main_manage_directories_returns ==
    /\ mainPc = "manage_directories"
    /\ \E updated_dirs \in {None, Some(<<>>), Some(<<[path |-> "/w", enabled |-> TRUE]>>)} :
          IF updated_dirs # None
          THEN SavesPreferences(("scan_directories" :> updated_dirs[1]) @@ mainPrefs,
                                "selector")
          ELSE /\ mainPc' = "selector"
               /\ UNCHANGED <<mainPrefs, mainSaves, prefVars>>
    /\ UNCHANGED <<mainAllTabs, dsVars, selVars, roVars, launchVars>>

\* show_manage_layouts returns: None, or a copy of prefs with the new
\* disabled_layouts, which becomes prefs and is saved.
main_manage_layouts_returns ==
    /\ mainPc = "manage_layouts"
    /\ \E new_disabled \in {None, Some(<<>>), Some(<<"ops">>)} :
          IF new_disabled # None
          THEN SavesPreferences(("disabled_layouts" :> new_disabled[1]) @@ mainPrefs,
                                "selector")
          ELSE /\ mainPc' = "selector"
               /\ UNCHANGED <<mainPrefs, mainSaves, prefVars>>
    /\ UNCHANGED <<mainAllTabs, dsVars, selVars, roVars, launchVars>>

\* The rename dialog inside show_tab_customization returned names: they are
\* merged into the custom_tab_names dict of prefs and save_custom_names saves;
\* the main dialog is shown again.
main_customize_renamed ==
    /\ mainPc = "customize"
    /\ \E new_names \in {("/w/a" :> "x"), ("/w/b" :> "A")} :
          LET renamed == ("custom_tab_names" :>
                            DictMerge(mainPrefs.custom_tab_names, new_names)) @@ mainPrefs
          IN  IF save_preferences_callback_given
              THEN SavesPreferences(renamed, "customize")
              ELSE /\ mainPrefs' = renamed
                   /\ UNCHANGED <<mainPc, mainSaves, prefVars>>
    /\ UNCHANGED <<mainAllTabs, dsVars, selVars, roVars, launchVars>>

\* show_tab_customization returns "BACK_TO_SELECTOR" (continue: the top of
\* the outer loop) or None (return).
main_customize_leaves ==
    /\ mainPc = "customize"
    /\ \E final_tabs \in {"BACK_TO_SELECTOR", "None"} :
          mainPc' = IF final_tabs = "None" THEN "returned" ELSE loop_top(mainPrefs)
    /\ UNCHANGED <<mainPrefs, mainAllTabs, mainSaves, prefVars, dsVars, selVars, roVars, launchVars>>

\* show_tab_customization returns tabs: the saved order is applied, and the
\* reorder dialog is opened for more than one tab.
main_customize_confirmed ==
    /\ mainPc = "customize"
    /\ \E final_tabs \in {SubSeq(AllTabs, 1, n) : n \in 1..MinReorderTabs} :
          /\ mainAllTabs' = apply_saved_order(final_tabs, mainPrefs)
          /\ IF Len(final_tabs) > 1
             THEN /\ mainPc' = "reorder"
                  /\ roPc' = "open"
                  /\ roTabs' = mainAllTabs'
                  /\ roCustom' = mainPrefs.custom_tab_names
                  /\ roCurrent' = <<>>
                  /\ roIter' = 0
                  /\ roResult' = None
                  /\ roLastOut' = None
             ELSE /\ mainPc' = "tabs_ordered"
                  /\ UNCHANGED roVars
    /\ UNCHANGED <<mainPrefs, mainSaves, prefVars, dsVars, selVars, launchVars>>

\* main after the tabs are created: last_tab_selections is the display names
\* of the tabs, and the preferences are saved.
main_tabs_created ==
    /\ mainPc = "tabs_ordered"
    /\ SavesPreferences(
          ("last_tab_selections" :>
              [i \in 1..Len(mainAllTabs) |->
                  get_tab_display_name(mainAllTabs[i], mainPrefs.custom_tab_names)])
          @@ mainPrefs, "complete")
    /\ UNCHANGED <<mainAllTabs, dsVars, selVars, roVars, launchVars>>

(***************************************************************************)
(* main from the chosen workspace to the created tabs (src/src/main.py     *)
(* 259-616, src/workspace-launcher.py 5020-5380): the workspace file is    *)
(* loaded, the directories are discovered, the tabs are chosen, the tabs   *)
(* that are open already are passed over and the others are created.  An   *)
(* exception that leaves main ends the script: mainPc is "crashed".        *)
(***************************************************************************)
\* report.collect_result: an Err is appended to report.errors.
collect_result(errors, result) ==
    IF result.success THEN errors ELSE Append(errors, result.error)

\* main after load_config_from_path returned or raised.
after_load_config(result) ==
    CASE "raised" \in DOMAIN result -> "crashed"
      [] ~result.success -> "returned"
      [] result.value.tabs = <<>> -> "returned"
      [] OTHER -> "discover"

\* main: config_result = load_config_from_path(selected_layout["path"]); an
\* Err is collected and main returns, as it does for a workspace without
\* tabs; otherwise the discovery of the directories starts.
main_load_config ==
    /\ mainPc = "load_config"
    /\ cfgResult' = Some(load_config_from_path(cfgFile))
    /\ mainPc' = after_load_config(cfgResult'[1])
    /\ lnReport' = IF "raised" \in DOMAIN cfgResult'[1] THEN lnReport
                   ELSE collect_result(lnReport, cfgResult'[1])
    /\ IF mainPc' = "discover"
       THEN /\ dsPc' = "config_loaded"
            /\ selIn' = [NoInputs EXCEPT !.layout_tabs = cfgResult'[1].value.tabs]
       ELSE UNCHANGED <<dsPc, selIn>>
    /\ UNCHANGED <<dsRoots, dsFs, dsExclude, dsIdx, dsDiscovered, dsWarned,
                   dsRepos, dsUntracked, dsWorktrees, dsListing>>
    /\ UNCHANGED <<selPc, selLast, selCustom, selHeight, selBoxes, selRc, selOut,
                   selResult, selSaved,
                   rnCategory, rnCustom, rnPage, rnAll, rnShown, rnSubmitted, rnReturn, rnHow>>
    /\ UNCHANGED <<cfgFile, lnFinal, lnShown, lnAlert, lnSelected, lnOpenDirs, lnSkipped,
                   lnIdx, lnCalls, lnWarned, ctPc, paneL, paneR>>
    /\ UNCHANGED <<mainPrefs, mainAllTabs, mainSaves, prefVars, roVars, dlgRc, wizVars, winVars>>

\* The tabs a user leaves checked in the model: /x/lnk is a symbolic link to
\* /x/w1, /x/gone is no directory, ~/p is /h/p in the home directory.
LaunchTabs ==
    <<[dir |-> "/w/a", name |-> Some("A")],
      [dir |-> "/x/lnk", name |-> None],
      [dir |-> "/x/gone", name |-> None],
      [dir |-> "~/p", name |-> None]>>

RECURSIVE SubSeqs(_)
\* The sub-sequences of a sequence, order kept.
SubSeqs(seq) ==
    IF seq = <<>> THEN {<<>>}
    ELSE LET rest == SubSeqs(Tail(seq))
         IN  rest \cup {<<Head(seq)>> \o r : r \in rest}

\* What show_tab_customization returns: "BACK_TO_SELECTOR", None, or the list
\* of the checked tabs, which is empty when every tab was unchecked.
CustomizationResults ==
    {[kind |-> "back", tabs |-> <<>>], [kind |-> "none", tabs |-> <<>>]}
    \cup {[kind |-> "tabs", tabs |-> t] : t \in SubSeqs(LaunchTabs)}

\* main after the first show_tab_customization: continue for
\* "BACK_TO_SELECTOR", return for None, the alert for an empty list.
after_customization(final_tabs) ==
    CASE final_tabs.kind = "back" -> "selector"
      [] final_tabs.kind = "none" -> "returned"
      [] Len(final_tabs.tabs) = 0 -> "confirm_empty"
      [] OTHER -> "selected"

\* main awaits show_tab_customization for the discovered items.
main_show_tab_customization ==
    /\ mainPc = "discover"
    /\ dsPc = "offered"
    /\ lnShown' = lnShown + 1
    /\ \E final_tabs \in CustomizationResults :
          /\ lnFinal' = final_tabs
          /\ mainPc' = after_customization(final_tabs)
    /\ UNCHANGED <<cfgFile, cfgResult, lnReport, lnAlert, lnSelected, lnOpenDirs, lnSkipped,
                   lnIdx, lnCalls, lnWarned, ctPc, paneL, paneR>>
    /\ UNCHANGED <<mainPrefs, mainAllTabs, mainSaves, prefVars, dsVars, selVars, roVars, dlgRc, wizVars, winVars>>

\* The buttons of the "No Tabs Selected" alert, by index.
AlertContinue == 0

AlertGoBack == 1

\* main: response = await confirm_alert.async_run(connection); "Go Back"
\* shows the customization dialog again, "Continue" goes on.
main_confirm_alert_returns ==
    /\ mainPc = "confirm_empty"
    /\ \E response \in {AlertContinue, AlertGoBack} :
          /\ lnAlert' = Append(lnAlert, response)
          /\ mainPc' = IF response = AlertGoBack THEN "reshow" ELSE "selected"
    /\ UNCHANGED <<cfgFile, cfgResult, lnReport, lnFinal, lnShown, lnSelected, lnOpenDirs,
                   lnSkipped, lnIdx, lnCalls, lnWarned, ctPc, paneL, paneR>>
    /\ UNCHANGED <<mainPrefs, mainAllTabs, mainSaves, prefVars, dsVars, selVars, roVars, dlgRc, wizVars, winVars>>

\* main after the show_tab_customization that follows "Go Back": if
\* final_tabs is None: return; every other value goes on to the ordering,
\* where the str "BACK_TO_SELECTOR" raises AttributeError.
after_reshown_customization(final_tabs) ==
    CASE final_tabs.kind = "none" -> "returned"
      [] final_tabs.kind = "back" -> "crashed"
      [] OTHER -> "selected"

\* main awaits the show_tab_customization that follows "Go Back".
main_customization_reshown ==
    /\ mainPc = "reshow"
    /\ lnShown' = lnShown + 1
    /\ \E final_tabs \in CustomizationResults :
          /\ lnFinal' = final_tabs
          /\ mainPc' = after_reshown_customization(final_tabs)
    /\ UNCHANGED <<cfgFile, cfgResult, lnReport, lnAlert, lnSelected, lnOpenDirs, lnSkipped,
                   lnIdx, lnCalls, lnWarned, ctPc, paneL, paneR>>
    /\ UNCHANGED <<mainPrefs, mainAllTabs, mainSaves, prefVars, dsVars, selVars, roVars, dlgRc, wizVars, winVars>>

\* list(reversed(all_tabs)), the order a user gives in the model.
Reversed(seq) == [i \in 1..Len(seq) |-> seq[Len(seq) + 1 - i]]

\* main of src/src/main.py: prefs["last_tab_order"] = [t.get("dir", "") for t
\* in all_tabs] if reordered is not None.
prefs_after_reorder_modular(p, all_tabs, reordered) ==
    IF reordered # None
    THEN ("last_tab_order" :>
            [i \in 1..Len(reordered[1]) |-> get_tab_dir(reordered[1][i])]) @@ p
    ELSE p

\* main with the chosen tabs: the saved order is applied; for more than one
\* tab show_tab_reorder_dialog is awaited, and a list it returns is taken as
\* all_tabs, stored as last_tab_order and saved: the normalized dirs by
\* src/workspace-launcher.py, the dirs as they are by src/src/main.py.
main_orders_tabs ==
    /\ mainPc = "selected"
    /\ LET all_tabs == apply_saved_order(lnFinal.tabs, mainPrefs)
       IN  IF Len(all_tabs) >= MinReorderTabs
           THEN \E reordered \in {None, Some(Reversed(all_tabs))} :
                   /\ mainAllTabs' = all_tabs_after_reorder(all_tabs, reordered)
                   /\ IF reorder_commits(reordered)
                      THEN \E stored \in {prefs_after_reorder(mainPrefs, all_tabs, reordered),
                                           prefs_after_reorder_modular(mainPrefs, all_tabs,
                                                                       reordered)} :
                              SavesPreferences(stored, "tabs_ordered")
                      ELSE /\ mainPc' = "tabs_ordered"
                           /\ UNCHANGED <<mainPrefs, mainSaves, prefVars>>
           ELSE /\ mainAllTabs' = all_tabs
                /\ mainPc' = "tabs_ordered"
                /\ UNCHANGED <<mainPrefs, mainSaves, prefVars>>
    /\ UNCHANGED <<dsVars, selVars, roVars, launchVars>>

\* A session of the window: the value of its "path" variable, which is empty
\* when iTerm2 knows no directory, and whether the query for it succeeds.
Sessions ==
    {[path |-> "/w/a", query_ok |-> TRUE], [path |-> "/x/w1/", query_ok |-> TRUE],
     [path |-> "", query_ok |-> TRUE], [path |-> "/x/gone", query_ok |-> FALSE]}

\* get_open_tab_directories: the normalized paths of the sessions whose path
\* could be queried and is not empty.
get_open_tab_directories(sessions) ==
    {normalize_tab_path(session.path) :
        session \in {x \in sessions : x.query_ok /\ x.path # ""}}

\* A filter that compares the dir of a tab as it is written.
is_open_as_written(tab_config, open_dirs) == get_tab_dir(tab_config) \in open_dirs

\* filter_already_open_tabs: normalized = normalize_tab_path(get_tab_dir(
\* tab_config)); if normalized in open_dirs
is_open(tab_config, open_dirs) == normalize_tab_path(get_tab_dir(tab_config)) \in open_dirs

\* filter_already_open_tabs: (tabs_to_create, tabs_skipped), the tabs that are
\* not open and the display names of the tabs that are.
filter_already_open_tabs(all_tabs, open_dirs, custom_tab_names) ==
    LET skipped == SelectSeq(all_tabs, LAMBDA t : is_open(t, open_dirs))
    IN  [tabs_to_create |-> SelectSeq(all_tabs, LAMBDA t : ~is_open(t, open_dirs)),
         tabs_skipped   |-> [i \in 1..Len(skipped) |->
                                get_tab_display_name(skipped[i], custom_tab_names)]]

\* main: open_dirs = await get_open_tab_directories(window); the tabs are
\* filtered and all_tabs = tabs_to_create.
main_filter_already_open_tabs ==
    /\ mainPc = "tabs_ordered"
    /\ \E sessions \in SUBSET Sessions :
          /\ lnOpenDirs' = get_open_tab_directories(sessions)
          /\ LET split == filter_already_open_tabs(mainAllTabs, lnOpenDirs',
                                                   mainPrefs.custom_tab_names)
             IN  /\ mainAllTabs' = split.tabs_to_create
                 /\ lnSkipped' = split.tabs_skipped
    /\ lnSelected' = mainAllTabs
    /\ lnIdx' = 1
    /\ mainPc' = "creating"
    /\ UNCHANGED <<cfgFile, cfgResult, lnReport, lnFinal, lnShown, lnAlert, lnCalls,
                   lnWarned, ctPc, paneL, paneR>>
    /\ UNCHANGED <<mainPrefs, mainSaves, prefVars, dsVars, selVars, roVars, dlgRc, wizVars, winVars>>

\* main, the creation loop: if not os.path.isdir(expanded_dir): a warning is
\* added to the report and the tab is passed over.
main_tab_dir_missing ==
    /\ mainPc = "creating"
    /\ ctPc = "idle"
    /\ lnIdx <= Len(mainAllTabs)
    /\ ~IsDir(expand_tab_path(get_tab_dir(mainAllTabs[lnIdx])))
    /\ lnWarned' = Append(lnWarned, get_tab_dir(mainAllTabs[lnIdx]))
    /\ lnIdx' = lnIdx + 1
    /\ UNCHANGED <<cfgFile, cfgResult, lnReport, lnFinal, lnShown, lnAlert, lnSelected,
                   lnOpenDirs, lnSkipped, lnCalls, ctPc, paneL, paneR>>
    /\ UNCHANGED <<mainVars, prefVars, dsVars, selVars, roVars, dlgRc, wizVars, winVars>>

\* A flag that starts False whatever was skipped.
used_initial_tab_ignoring_skipped(tabs_skipped, calls) == Len(calls) > 0

\* main: used_initial_tab is len(tabs_skipped) > 0 before the loop and True
\* after the first create_tab_with_splits.
used_initial_tab(tabs_skipped, calls) == Len(tabs_skipped) > 0 \/ Len(calls) > 0

\* main, the creation loop: tab = await create_tab_with_splits(...), which
\* prepares the tab and the two panes and starts both pane setups.
main_create_tab_with_splits ==
    /\ mainPc = "creating"
    /\ ctPc = "idle"
    /\ lnIdx <= Len(mainAllTabs)
    /\ IsDir(expand_tab_path(get_tab_dir(mainAllTabs[lnIdx])))
    /\ lnCalls' = Append(lnCalls,
                         [tab      |-> mainAllTabs[lnIdx],
                          name     |-> get_tab_display_name(mainAllTabs[lnIdx],
                                                            mainPrefs.custom_tab_names),
                          is_first |-> ~used_initial_tab(lnSkipped, lnCalls)])
    /\ ctPc' = "gather"
    /\ paneL' = "start"
    /\ paneR' = "start"
    /\ UNCHANGED <<cfgFile, cfgResult, lnReport, lnFinal, lnShown, lnAlert, lnSelected,
                   lnOpenDirs, lnSkipped, lnIdx, lnWarned>>
    /\ UNCHANGED <<mainVars, prefVars, dsVars, selVars, roVars, dlgRc, wizVars, winVars>>

\* setup_pane_and_send_command, one step of one pane: the cd is sent, then
\* the prompt is looked at and the command is sent (True) or the shell is not
\* ready (False); session.async_send_text raises RPCException when iTerm2
\* rejects the call, and nothing in the function catches it for the cd or
\* for the command sent from the except clause.
setup_pane_step(pane, pane_next) ==
    \/ /\ pane = "start"
       /\ pane_next \in {"cd_sent", "raised"}
    \/ /\ pane = "cd_sent"
       /\ pane_next \in {"sent", "not_ready", "raised"}

\* A pane setup is over: it returned True or False, or it raised.
pane_over(pane) == pane \in {"sent", "not_ready", "raised"}

setup_pane_left ==
    /\ mainPc = "creating"
    /\ ctPc = "gather"
    /\ setup_pane_step(paneL, paneL')
    /\ UNCHANGED <<cfgFile, cfgResult, lnReport, lnFinal, lnShown, lnAlert, lnSelected,
                   lnOpenDirs, lnSkipped, lnIdx, lnCalls, lnWarned, ctPc, paneR>>
    /\ UNCHANGED <<mainVars, prefVars, dsVars, selVars, roVars, dlgRc, wizVars, winVars>>

setup_pane_right ==
    /\ mainPc = "creating"
    /\ ctPc = "gather"
    /\ setup_pane_step(paneR, paneR')
    /\ UNCHANGED <<cfgFile, cfgResult, lnReport, lnFinal, lnShown, lnAlert, lnSelected,
                   lnOpenDirs, lnSkipped, lnIdx, lnCalls, lnWarned, ctPc, paneL>>
    /\ UNCHANGED <<mainVars, prefVars, dsVars, selVars, roVars, dlgRc, wizVars, winVars>>

\* A gather that waits for every awaitable whatever it raised
\* (return_exceptions=True).
gather_over_all(left, right) == pane_over(left) /\ pane_over(right)

\* await asyncio.gather(left, right): over when both returned, or as soon as
\* one of them raised; the other one is not waited for.
gather_over(left, right) ==
    \/ left = "raised"
    \/ right = "raised"
    \/ pane_over(left) /\ pane_over(right)

\* create_tab_with_splits: the gather is over; return tab, or the exception
\* of a pane setup leaves create_tab_with_splits and main, which end the
\* script and the pane setup that is still running with it.
create_tab_with_splits_over ==
    /\ mainPc = "creating"
    /\ ctPc = "gather"
    /\ gather_over(paneL, paneR)
    /\ IF paneL = "raised" \/ paneR = "raised"
       THEN /\ ctPc' = "raised"
            /\ mainPc' = "crashed"
            /\ UNCHANGED lnIdx
       ELSE /\ ctPc' = "idle"
            /\ mainPc' = "creating"
            /\ lnIdx' = lnIdx + 1
    /\ UNCHANGED <<cfgFile, cfgResult, lnReport, lnFinal, lnShown, lnAlert, lnSelected,
                   lnOpenDirs, lnSkipped, lnCalls, lnWarned, paneL, paneR>>
    /\ UNCHANGED <<mainPrefs, mainAllTabs, mainSaves, prefVars, dsVars, selVars, roVars, dlgRc, wizVars, winVars>>

\* main after the loop: all_tab_names = list(tabs_skipped) + the display
\* names of the created tabs is stored as last_tab_selections and saved.
main_saves_selections ==
    /\ mainPc = "creating"
    /\ ctPc = "idle"
    /\ lnIdx > Len(mainAllTabs)
    /\ SavesPreferences(
          ("last_tab_selections" :>
              lnSkipped \o
              [i \in 1..Len(mainAllTabs) |->
                  get_tab_display_name(mainAllTabs[i], mainPrefs.custom_tab_names)])
          @@ mainPrefs, "complete")
    /\ UNCHANGED <<mainAllTabs, dsVars, selVars, roVars, launchVars>>

\* The preference store at rest, for the specifications of other components.
IdlePrefs ==
    /\ prefs = PrefDefaults
    /\ fsTarget = None
    /\ fsTemp = None
    /\ awPc = "idle"
    /\ awContent = <<>>
    /\ awPrev = None
    /\ awErr = "none"
    /\ savedPrefs = PrefDefaults
    /\ loaded = None

IdleDs ==
    /\ dsPc = "idle" /\ dsRoots = <<>> /\ dsFs = EmptyDict /\ dsExclude = {}
    /\ dsIdx = 0 /\ dsDiscovered = <<>> /\ dsWarned = {}
    /\ dsRepos = <<>> /\ dsUntracked = <<>> /\ dsWorktrees = <<>>
    /\ dsListing = <<>>

IdleSel ==
    /\ selPc = "idle" /\ selIn = NoInputs /\ selLast = None /\ selCustom = EmptyDict
    /\ selHeight = 0 /\ selBoxes = <<>> /\ selRc = 0 /\ selOut = NoOutput
    /\ selResult = Pending /\ selSaved = None
    /\ NoRenameSession

IdleRo ==
    /\ roPc = "idle" /\ roTabs = <<>> /\ roCustom = EmptyDict /\ roCurrent = <<>>
    /\ roIter = 0 /\ roResult = None /\ roLastOut = None

IdleMain ==
    /\ mainPc = "idle" /\ mainPrefs = PrefDefaults /\ mainAllTabs = <<>> /\ mainSaves = 0

\* final_tabs before show_tab_customization has returned.
NotShown == [kind |-> "pending", tabs |-> <<>>]

IdleWin ==
    /\ winTabs = <<>> /\ winDesired = <<>> /\ winCreated = <<>> /\ winMap = EmptyDict
    /\ winIdx = 0 /\ winOrdered = <<>> /\ winPc = "idle"

IdleTabs ==
    /\ lnReport = <<>> /\ lnFinal = NotShown /\ lnShown = 0 /\ lnAlert = <<>>
    /\ lnSelected = <<>> /\ lnOpenDirs = {} /\ lnSkipped = <<>> /\ lnIdx = 0
    /\ lnCalls = <<>> /\ lnWarned = <<>> /\ ctPc = "idle"
    /\ paneL = "idle" /\ paneR = "idle" /\ dlgRc = 0

IdleWiz ==
    /\ cfgDir0 = None /\ cfgDir = None /\ wzPc = "idle" /\ wzFirstRun = None

IdleCreate == IdleTabs /\ IdleWiz /\ IdleWin

IdleLaunch ==
    /\ cfgFile = None /\ cfgResult = None /\ IdleCreate

(***************************************************************************)
(* SpecPrefs: one save_preferences call of any Preferences value over an   *)
(* absent or an existing file, with a crash or an OSError at any step,     *)
(* followed by the next load_preferences.                                  *)
(***************************************************************************)
InitPrefs ==
    /\ prefs \in PrefsUniverse
    /\ fsTarget \in {None, Some(OldContent)}
    /\ fsTemp = None
    /\ awPc = "idle"
    /\ awContent = <<>>
    /\ awPrev = None
    /\ awErr = "none"
    /\ savedPrefs = PrefDefaults
    /\ loaded = None
    /\ IdleDs /\ IdleSel /\ IdleRo /\ IdleMain
    /\ IdleLaunch

NextPrefs ==
    \/ save_preferences_call
    \/ atomic_write_mkstemp
    \/ atomic_write_mkstemp_fails
    \/ atomic_write_write
    \/ atomic_write_fsync
    \/ atomic_write_rename
    \/ atomic_write_fails
    \/ process_crash
    \/ load_preferences_call

SpecPrefs == InitPrefs /\ [][NextPrefs]_vars

\* C1: at every step of atomic_write_file, and after a crash at any of them,
\* the preferences file holds its complete previous content (or is absent if
\* it was absent before) or the complete new content.
C1_TargetOldOrNew ==
    awPc # "idle" => fsTarget \in {awPrev, Some(awContent)}

\* C1 witness: a crash in the middle of the write (a partial temp file on
\* disk) with the previous file intact.
C1_Witness ==
    /\ awPc = "crashed"
    /\ fsTemp # None /\ Len(fsTemp[1]) > 0 /\ Len(fsTemp[1]) < Len(awContent)
    /\ fsTarget = awPrev /\ awPrev = Some(OldContent)

\* A Preferences value whose strings TOML can hold without escaping.
Representable(p) == \A k \in DOMAIN p.custom_tab_names : p.custom_tab_names[k] # BadName

\* C2: after a successful save_preferences(p) of a representable p, the next
\* load_preferences() returns a value equal to p.
C2_RoundTrip ==
    (awPc = "saved" /\ loaded # None /\ Representable(savedPrefs))
        => loaded[1] = savedPrefs

(***************************************************************************)
(* SpecReorder: the reorder dialog over one to MaxTabs tabs, two of which  *)
(* may show the same display name, or over BigCount tabs.                  *)
(***************************************************************************)
\* The tab lists handed to the dialog, with the custom names in force: "/w/b"
\* or "/w/c" may be renamed to the display name of "/w/a".
ReorderInputs ==
    {[tabs |-> SubSeq(AllTabs, 1, n), custom |-> c] :
        n \in 1..MaxTabs, c \in {EmptyDict, ("/w/b" :> "A"), ("/w/c" :> "A")}}
    \cup {[tabs |-> BigTabs, custom |-> EmptyDict]}

InitReorder ==
    /\ roPc = "open"
    /\ \E c \in ReorderInputs : roTabs = c.tabs /\ roCustom = c.custom
    /\ roCurrent = <<>>
    /\ roIter = 0
    /\ roResult = None
    /\ roLastOut = None
    /\ mainPc = "reorder"
    /\ mainAllTabs = roTabs
    /\ mainPrefs \in {PrefDefaults, ("last_tab_order" :> <<"/w/a">>) @@ PrefDefaults}
    /\ mainSaves = 0
    /\ IdlePrefs /\ IdleDs /\ IdleSel
    /\ IdleLaunch

NextReorder ==
    \/ show_tab_reorder_dialog_open
    \/ show_tab_reorder_dialog_sort
    \/ show_tab_reorder_dialog_finalize
    \/ show_tab_reorder_dialog_cancel
    \/ main_reorder_returned

SpecReorder == InitReorder /\ [][NextReorder]_vars

(***************************************************************************)
(* SpecDiscovery: one scan of the scan directories followed by the         *)
(* worktree discovery over the repos found.                                *)
(***************************************************************************)
InitDiscovery ==
    /\ dsPc = "scan"
    /\ dsRoots = <<"/nx", "/w">>
    /\ dsFs \in {f \in [Range(ChildNames) -> FsEntries] :
                    Cardinality({n \in Range(ChildNames) : f[n].git = "dir"}) <= MaxRepos}
    /\ dsExclude \in {{}, {"/w/r2"}}
    /\ dsIdx = 0
    /\ dsDiscovered = <<>>
    /\ dsWarned = {}
    /\ dsRepos = <<>>
    /\ dsUntracked = <<>>
    /\ dsWorktrees = <<>>
    /\ dsListing = <<>>
    /\ IdlePrefs /\ IdleSel /\ IdleRo /\ IdleMain
    /\ IdleLaunch

NextDiscovery ==
    \/ discover_all_directories_call
    \/ worktree_list_parsed
    \/ worktree_list_fails
    \/ worktree_list_raises
    \/ discover_all_worktrees_return

SpecDiscovery == InitDiscovery /\ [][NextDiscovery]_vars

\* The children of the scan root that are directories and not excluded.
ScannedChildren ==
    {n \in Range(ChildNames) : dsFs[n].is_dir /\ ("/w/" \o n) \notin dsExclude}

InList(list, n) == \E i \in 1..Len(list) : list[i].dir = "/w/" \o n /\ list[i].name = n

\* C7: after the scan every child directory outside the exclude set is a
\* repo (marker directory: in the repo list only), a worktree pointer
\* (marker file: in neither list), untracked (no marker, not hidden: in the
\* untracked list only) or excluded-hidden (no marker, hidden: in neither
\* list), exactly one of the four; a hidden child with a marker directory is
\* in the repo list; nothing else is in either list.
C7_ClassificationPartition ==
    dsPc # "scan" =>
        /\ \A n \in ScannedChildren :
              LET is_repo     == dsFs[n].git = "dir"
                  is_pointer  == dsFs[n].git = "file"
                  is_untrack  == dsFs[n].git = "none" /\ ~IsHiddenName(n)
                  is_hidden   == dsFs[n].git = "none" /\ IsHiddenName(n)
              IN  /\ Cardinality({c \in {"repo", "pointer", "untracked", "hidden"} :
                        \/ (c = "repo" /\ is_repo)
                        \/ (c = "pointer" /\ is_pointer)
                        \/ (c = "untracked" /\ is_untrack)
                        \/ (c = "hidden" /\ is_hidden)}) = 1
                  /\ InList(dsRepos, n) <=> is_repo
                  /\ InList(dsUntracked, n) <=> is_untrack
                  /\ ~(InList(dsRepos, n) /\ InList(dsUntracked, n))
        /\ \A i \in 1..Len(dsRepos) : \E n \in ScannedChildren : dsRepos[i].dir = "/w/" \o n
        /\ \A i \in 1..Len(dsUntracked) : \E n \in ScannedChildren : dsUntracked[i].dir = "/w/" \o n

C7_Witness ==
    /\ dsPc = "worktrees"
    /\ dsFs[".h"] = [is_dir |-> TRUE, git |-> "dir"]
    /\ dsFs[".c"] = [is_dir |-> TRUE, git |-> "none"]
    /\ dsFs["r1"] = [is_dir |-> TRUE, git |-> "file"]
    /\ dsFs["r2"] = [is_dir |-> TRUE, git |-> "none"]
    /\ dsExclude = {}
    /\ dsRepos = <<[name |-> ".h", dir |-> "/w/.h"]>>
    /\ dsUntracked = <<[name |-> "r2", dir |-> "/w/r2"]>>

\* C6: the worktrees returned have pairwise different resolved paths, every
\* resolved path that was discovered is returned, and the worktree returned
\* for a path is the first one discovered with it, in discovery order.
C6_DedupByResolvedPath ==
    dsPc = "done" =>
        /\ \A i, j \in 1..Len(dsWorktrees) :
              i # j => Resolve(dsWorktrees[i].dir) # Resolve(dsWorktrees[j].dir)
        /\ {Resolve(dsDiscovered[i].dir) : i \in 1..Len(dsDiscovered)}
              = {Resolve(dsWorktrees[i].dir) : i \in 1..Len(dsWorktrees)}
        /\ \E pos \in [1..Len(dsWorktrees) -> 1..Len(dsDiscovered)] :
              /\ \A i, j \in DOMAIN pos : i < j => pos[i] < pos[j]
              /\ \A i \in DOMAIN pos :
                    /\ dsWorktrees[i] = dsDiscovered[pos[i]]
                    /\ \A k \in 1..(pos[i] - 1) :
                          Resolve(dsDiscovered[k].dir) # Resolve(dsWorktrees[i].dir)

C6_Witness ==
    /\ dsPc = "done"
    /\ Len(dsDiscovered) = 4
    /\ dsDiscovered[1] = [dir |-> "/x/lnk", parent |-> "r1", name |-> Some("R1.wt-lnk"),
                          detached |-> TRUE]
    /\ dsDiscovered[2].dir = "/x/w1" /\ dsDiscovered[2].parent = "r1"
    /\ dsDiscovered[3].dir = "/x/w1" /\ dsDiscovered[3].parent = "r2"
    /\ dsWorktrees = <<dsDiscovered[1]>>

(***************************************************************************)
(* SpecSelect: show_tab_customization over the tabs of a workspace, from   *)
(* the first showing of the main dialog to its return.                     *)
(***************************************************************************)
\* One declared tab, two worktrees, a sibling repo and an untracked folder.
ScenarioInputs ==
    [layout_tabs       |-> <<[dir |-> "/h/p", name |-> Some("P")]>>,
     worktrees         |-> <<[dir |-> "/w/w1", name |-> Some("r.wt-f1")],
                             [dir |-> "/w/w2", name |-> Some("r.wt-f2")]>>,
     additional_repos  |-> <<[dir |-> "/w/r", name |-> Some("r")]>>,
     untracked_folders |-> <<[dir |-> "/w/u", name |-> Some("u")]>>]

\* One declared tab more than the smallest rename page holds.
PagedInputs ==
    [NoInputs EXCEPT !.layout_tabs = SubSeq(AllTabs, 1, MinItemsPerPage + 1)]

\* 80% of the screen height: room for exactly three fields, or for fourteen.
ScreenHeights == {395, 900}

SelectContexts ==
    {[inputs |-> ScenarioInputs, last |-> l, custom |-> c, height |-> 900] :
        l \in {None, Some(<<>>), Some(<<"P", "/w/w1", "x">>)},
        c \in {EmptyDict, ("/w/w2" :> "x")}}
    \cup {[inputs |-> PagedInputs, last |-> None, custom |-> EmptyDict, height |-> h] :
            h \in ScreenHeights}
    \cup {[inputs |-> PagedInputs, last |-> Some(<<"A", "/w/b", "x">>),
           custom |-> ("/w/a" :> "n1"), height |-> 395]}

InitSelect ==
    /\ \E c \in SelectContexts :
          /\ selIn = c.inputs
          /\ selLast = c.last
          /\ selCustom = c.custom
          /\ selHeight = c.height
          /\ selBoxes = MainDialogBoxes(c.inputs, c.last, c.custom)
    /\ selPc = "MAIN_SELECT"
    /\ selRc = 0
    /\ selOut = NoOutput
    /\ selResult = Pending
    /\ selSaved = None
    /\ NoRenameSession
    /\ IdlePrefs /\ IdleDs /\ IdleRo /\ IdleMain
    /\ IdleLaunch

NextSelect ==
    \/ main_select_open
    \/ main_select_back
    \/ main_select_rename
    \/ main_select_abort
    \/ category_pick_chosen
    \/ category_pick_none
    \/ rename_page_next
    \/ rename_page_save
    \/ rename_page_back
    \/ rename_page_cancel

SpecSelect == InitSelect /\ [][NextSelect]_vars

\* The name a submitted text stands for: the text without surrounding blanks.
SubmittedName(path) == Strip(rnSubmitted[path])

\* C3: while the rename dialog is open, every non-blank value submitted for an
\* item is the accumulated edit of that item and the value pre-filled for it
\* whenever its page is shown, whatever Next and Back steps were taken since;
\* when the dialog has returned, the returned edits hold that value.
C3_EditsRetained ==
    \A path \in DOMAIN rnSubmitted :
        SubmittedName(path) # "" =>
            /\ selPc = "RENAME_PAGE" =>
                  /\ path \in DOMAIN rnAll
                  /\ rnAll[path] = SubmittedName(path)
                  /\ path_display(path) \in DOMAIN rnShown
                        => rnShown[path_display(path)] = SubmittedName(path)
            /\ rnHow \in {"save", "cancel"} =>
                  /\ rnReturn # None
                  /\ path \in DOMAIN rnReturn[1]
                  /\ rnReturn[1][path] = SubmittedName(path)

C3_Witness ==
    /\ selPc = "RENAME_PAGE"
    /\ selIn = PagedInputs
    /\ rnCustom = ("/w/a" :> "n1")
    /\ rnPage = 0
    /\ {"/w/a", "/w/d"} \subseteq DOMAIN rnSubmitted
    /\ rnSubmitted["/w/a"] = " x "
    /\ rnShown["/w/a"] = "x"

RememberedSet == IF selLast # None /\ selLast[1] # <<>> THEN Some(Range(selLast[1])) ELSE None

BoxOf(dir) == selBoxes[CHOOSE i \in 1..Len(selBoxes) : selBoxes[i].tab.dir = dir]

TerminalPcs == {"CONFIRMED", "BACK_TO_PARENT", "CANCELLED"}

\* C9: from MAIN_SELECT the flow ends (Open Selected with the tabs whose
\* switches are on, in dialog order; Back with the back-to-selector signal;
\* failure with None) or enters the category selector (Rename Tabs); the
\* category selector leads to a rename page or back to MAIN_SELECT, a rename
\* page to a rename page or back to MAIN_SELECT; every exit of the rename
\* sub-flow lands in MAIN_SELECT with the flow's result still open, and an
\* ended flow takes no further step.
C9_StateMachine ==
    [][/\ selPc = "MAIN_SELECT" =>
            /\ selPc' \in TerminalPcs \cup {"RENAME_CATEGORY_PICK"}
            /\ (selRc' = 0 /\ selOut'.ok) =>
                  /\ selPc' = "CONFIRMED"
                  /\ selResult'.kind = "tabs"
                  /\ \E pos \in [1..Len(selResult'.tabs) -> 1..Len(selBoxes)] :
                        /\ \A i, j \in DOMAIN pos : i < j => pos[i] < pos[j]
                        /\ \A i \in DOMAIN pos : selResult'.tabs[i] = selBoxes[pos[i]].tab
                        /\ {pos[i] : i \in DOMAIN pos}
                              = {k \in 1..Len(selBoxes) : selBoxes[k].label \in selOut'.checked}
            /\ selRc' = 2 => (selPc' = "BACK_TO_PARENT" /\ selResult'.kind = "BACK_TO_SELECTOR")
            /\ selRc' = 3 => (selPc' = "RENAME_CATEGORY_PICK" /\ selResult' = Pending)
       /\ selPc = "RENAME_CATEGORY_PICK" =>
            /\ selPc' \in {"RENAME_PAGE", "MAIN_SELECT"}
            /\ selResult' = Pending
       /\ selPc = "RENAME_PAGE" =>
            /\ selPc' \in {"RENAME_PAGE", "MAIN_SELECT"}
            /\ selResult' = Pending
       /\ (selPc \in {"RENAME_CATEGORY_PICK", "RENAME_PAGE"} /\ rnHow' # "none") =>
            selPc' = "MAIN_SELECT"
       /\ selPc \notin TerminalPcs]_vars

C9_Witness ==
    /\ selPc = "CONFIRMED"
    /\ selSaved # None
    /\ Len(selResult.tabs) = 2
    /\ selIn = ScenarioInputs

\* The name the dialog records for a submitted text: the text without
\* surrounding blanks, or the basename of the path when that is empty.
RecordedName(path) ==
    IF SubmittedName(path) # "" THEN SubmittedName(path) ELSE basename(path)

SubmittedEdits == [path \in DOMAIN rnSubmitted |-> RecordedName(path)]

RenameTotalPages == total_pages(Len(RenameItems), RenamePerPage)

\* C11: while a rename page is shown its index is within 0..total_pages-1;
\* the primary action on a page that is not the last shows the next page and
\* the dialog stays open, the primary action on the last page ends the dialog
\* with a commit, and Back shows the previous page, the first page staying
\* the first page.
C11_PageNavigation ==
    /\ [](selPc = "RENAME_PAGE" => rnPage \in 0..(RenameTotalPages - 1))
    /\ [][/\ (rename_page_next /\ rnPage + 1 < RenameTotalPages) =>
                /\ selPc' = "RENAME_PAGE"
                /\ rnPage' = rnPage + 1
                /\ rnHow' = "none"
          /\ (rename_page_save /\ rnPage + 1 = RenameTotalPages) =>
                /\ selPc' = "MAIN_SELECT"
                /\ rnHow' = "save"
                /\ rnReturn' = save_return(rnAll')
          /\ rename_page_back =>
                /\ selPc' = "RENAME_PAGE"
                /\ rnPage' = IF rnPage = 0 THEN 0 ELSE rnPage - 1
                /\ rnHow' = "none"
          /\ (selPc = "RENAME_PAGE" /\ selPc' = "RENAME_PAGE") =>
                rnPage' \in {rnPage - 1, rnPage, rnPage + 1}]_vars

C11_Witness ==
    /\ selPc = "RENAME_PAGE"
    /\ selIn = PagedInputs
    /\ RenameTotalPages = 2
    /\ rnPage = 1
    /\ "/w/d" \in DOMAIN rnShown
    /\ rnShown["/w/d"] = "x"
    /\ "/w/a" \in DOMAIN rnSubmitted

\* A step of show_tab_reorder_dialog_sort that re-sorts: the renderer gave an
\* output with at least one entry.
SortStep ==
    /\ roPc = "dialog"
    /\ roIter' = roIter + 1
    /\ roLastOut' # None
    /\ DOMAIN roLastOut'[1] # {}

\* The text submitted for a tab in the output of the step, NoEntry if none.
SubmittedText(tab, output) ==
    LET name == get_tab_display_name(tab, roCustom)
    IN  IF name \notin DOMAIN output THEN NoEntry
        ELSE IF "selectedValue" \in DOMAIN output[name]
             THEN output[name].selectedValue
             ELSE output[name]

HasValidRank(tab, output) ==
    /\ SubmittedText(tab, output).num
    /\ SubmittedText(tab, output).n \in OfferedRanks(Len(roCurrent))

PositionIn(seq, tab) == CHOOSE i \in 1..Len(seq) : seq[i] = tab

\* C4: in a sort step, two items of equal rank (or both without a valid rank)
\* keep their relative order, and every item whose rank is missing or not an
\* integer comes after every item with a valid rank in 1..10*count.
C4_StableAndInvalidLast ==
    [][SortStep =>
        LET out == roLastOut'[1]
        IN  \A i, j \in 1..Len(roCurrent) :
                LET a == roCurrent[i]
                    b == roCurrent[j]
                IN  /\ (/\ i < j
                        /\ HasValidRank(a, out) = HasValidRank(b, out)
                        /\ HasValidRank(a, out) =>
                                SubmittedText(a, out).n = SubmittedText(b, out).n)
                       => PositionIn(roCurrent', a) < PositionIn(roCurrent', b)
                    /\ (HasValidRank(a, out) /\ ~HasValidRank(b, out))
                       => PositionIn(roCurrent', a) < PositionIn(roCurrent', b)]_vars

ScenarioRanks == ("A" :> NumText(20)) @@ ("B" :> NumText(10)) @@ ("C" :> NumText(30))

\* C5: a sort step returns a permutation of the current items in which the
\* items are in non-decreasing order of their submitted ranks; items [A,B,C]
\* with ranks {A:20, B:10, C:30} yield [B,A,C].
C5_SortedPermutation ==
    [][SortStep =>
        LET out == roLastOut'[1]
        IN  /\ Len(roCurrent') = Len(roCurrent)
            /\ \A i \in 1..Len(roCurrent) :
                   Cardinality({j \in 1..Len(roCurrent') : roCurrent'[j] = roCurrent[i]}) = 1
            /\ \A i, j \in 1..Len(roCurrent') :
                   (/\ i < j
                    /\ HasValidRank(roCurrent'[i], out)
                    /\ HasValidRank(roCurrent'[j], out))
                   => SubmittedText(roCurrent'[i], out).n <= SubmittedText(roCurrent'[j], out).n
            /\ (roCurrent = SubSeq(AllTabs, 1, 3) /\ roCustom = EmptyDict /\ out = ScenarioRanks)
               => roCurrent' = <<AllTabs[2], AllTabs[1], AllTabs[3]>>]_vars

C5_Witness ==
    /\ roPc = "dialog"
    /\ roIter = 1
    /\ roTabs = SubSeq(AllTabs, 1, 3)
    /\ roCustom = EmptyDict
    /\ roLastOut = Some(ScenarioRanks)
    /\ roCurrent = <<AllTabs[2], AllTabs[1], AllTabs[3]>>
\* C12: the dialog's previews touch neither the caller's tabs nor the
\* preferences; Finalize returns the order on display, which after one sort
\* is the sort of the tabs the dialog was opened with, and the caller takes
\* it, stores it as last_tab_order and saves; Cancel returns None at any
\* iteration, and the caller keeps its tabs and its preferences and saves
\* nothing.
C12_FinalizeCommitsCancelKeeps ==
    /\ [](mainPc = "reorder" =>
            /\ mainAllTabs = roTabs
            /\ mainSaves = 0
            /\ fsTarget = None
            /\ (roPc = "dialog" /\ roIter = 0) => roCurrent = roTabs
            /\ (roPc = "dialog" /\ roIter = 1) =>
                  roCurrent = IF roLastOut # None /\ DOMAIN roLastOut[1] # {}
                              THEN _reorder_tabs_by_numbers(roTabs, roCustom, roLastOut[1])
                              ELSE roTabs)
    /\ [][/\ show_tab_reorder_dialog_finalize => roResult' = Some(roCurrent)
          /\ show_tab_reorder_dialog_cancel => roResult' = None
          /\ (main_reorder_returned /\ roResult = None) =>
                /\ mainAllTabs' = roTabs
                /\ UNCHANGED <<mainPrefs, mainSaves, savedPrefs, fsTarget>>
          /\ (main_reorder_returned /\ roResult # None) =>
                /\ mainAllTabs' = roCurrent
                /\ "last_tab_order" \in DOMAIN mainPrefs'
                /\ mainPrefs'.last_tab_order =
                      [i \in 1..Len(roCurrent) |-> normalize_tab_path(roCurrent[i].dir)]
                /\ mainSaves' = 1
                /\ savedPrefs' = mainPrefs']_vars

C12_Witness ==
    /\ mainPc = "tabs_ordered"
    /\ roResult = None
    /\ roIter = MaxSorts
    /\ roCurrent = <<AllTabs[2], AllTabs[1], AllTabs[3]>>
    /\ mainAllTabs = SubSeq(AllTabs, 1, 3)
    /\ "last_tab_order" \in DOMAIN mainPrefs
    /\ mainPrefs.last_tab_order = <<"/w/a">>
    /\ mainSaves = 0

(***************************************************************************)
(* SpecReorderLive: the reorder dialog with any number of sorts, under the *)
(* assumption that the user does not choose Sort forever: a dialog that    *)
(* stays open is eventually finalized or cancelled.                        *)
(***************************************************************************)
\* The dialog over MinReorderTabs tabs, opened by main.
InitReorderLive ==
    /\ roPc = "open"
    /\ \E c \in {i \in ReorderInputs : Len(i.tabs) = MinReorderTabs} :
          roTabs = c.tabs /\ roCustom = c.custom
    /\ roCurrent = <<>>
    /\ roIter = 0
    /\ roResult = None
    /\ roLastOut = None
    /\ mainPc = "reorder"
    /\ mainAllTabs = roTabs
    /\ mainPrefs \in {PrefDefaults, ("last_tab_order" :> <<"/w/a">>) @@ PrefDefaults}
    /\ mainSaves = 0
    /\ IdlePrefs /\ IdleDs /\ IdleSel
    /\ IdleLaunch

NextReorderLive ==
    \/ show_tab_reorder_dialog_open
    \/ show_tab_reorder_dialog_sort
    \/ show_tab_reorder_dialog_sort_uncounted
    \/ show_tab_reorder_dialog_finalize
    \/ show_tab_reorder_dialog_cancel
    \/ main_reorder_returned

SpecReorderLive ==
    /\ InitReorderLive
    /\ [][NextReorderLive]_vars
    /\ WF_vars(show_tab_reorder_dialog_finalize \/ show_tab_reorder_dialog_cancel)

\* C13: at every iteration the open dialog can be sorted again and a sort
\* leaves it open; the dialog closes only by Finalize or by Cancel or another
\* non-sort outcome; and when the user does not choose Sort forever, an open
\* dialog eventually returns.
C13_NoCapTerminates ==
    /\ [](roPc = "dialog" =>
            ENABLED (show_tab_reorder_dialog_sort \/ show_tab_reorder_dialog_sort_uncounted))
    /\ [][/\ (roPc = "dialog" /\ <<roCurrent, roLastOut, roIter>>' # <<roCurrent, roLastOut, roIter>>)
                => roPc' = "dialog"
          /\ (roPc = "dialog" /\ roPc' # "dialog")
                => /\ roPc' = "returned"
                   /\ roResult' \in {None, Some(roCurrent)}]_vars
    /\ (roPc = "dialog") ~> (roPc = "returned")

C13_Witness ==
    /\ roPc = "returned"
    /\ roIter > MaxSorts
    /\ roTabs = SubSeq(AllTabs, 1, MinReorderTabs)
    /\ roCurrent = <<AllTabs[2], AllTabs[1]>>
    /\ roLastOut = None
    /\ roResult = Some(roCurrent)

(***************************************************************************)
(* SpecMain: main from load_preferences to the last save, over the         *)
(* workspaces MainLayoutNames and the first MinReorderTabs tabs, with every *)
(* save_preferences succeeding or failing.                                 *)
(***************************************************************************)
InitMain ==
    /\ mainPc = "start"
    /\ mainPrefs = PrefDefaults
    /\ mainAllTabs = <<>>
    /\ mainSaves = 0
    /\ prefs = PrefDefaults
    /\ fsTarget \in {None, Some(OldContent)}
    /\ fsTemp = None
    /\ awPc = "idle"
    /\ awContent = <<>>
    /\ awPrev = None
    /\ awErr = "none"
    /\ savedPrefs = PrefDefaults
    /\ loaded = None
    /\ IdleDs /\ IdleSel /\ IdleRo
    /\ IdleLaunch

NextMain ==
    \/ main_load_preferences
    \/ main_auto_open_returns
    \/ main_selector_other
    \/ main_selector_chosen
    \/ main_manage_directories_returns
    \/ main_manage_layouts_returns
    \/ main_customize_renamed
    \/ main_customize_leaves
    \/ main_customize_confirmed
    \/ show_tab_reorder_dialog_open
    \/ show_tab_reorder_dialog_sort
    \/ show_tab_reorder_dialog_finalize
    \/ show_tab_reorder_dialog_cancel
    \/ main_reorder_returned
    \/ main_tabs_created

SpecMain == InitMain /\ [][NextMain]_vars

\* C14: once the preferences are loaded, main's prefs change only in a step
\* that hands the changed prefs to save_preferences before the next dialog
\* is up; so at every dialog and at every later point either nothing was
\* changed since the load, or the last save was called with the prefs as
\* they are, and the file holds them when that save succeeded.
C14_SavedBeforeNextDialog ==
    /\ [](mainPc # "start" =>
            IF mainSaves = 0
            THEN loaded # None /\ mainPrefs = loaded[1]
            ELSE /\ savedPrefs = mainPrefs
                 /\ awPc = "saved" => fsTarget = Some(save_preferences_content(mainPrefs)))
    /\ [][(mainPc # "start" /\ mainPrefs' # mainPrefs) =>
                /\ mainSaves' = mainSaves + 1
                /\ savedPrefs' = mainPrefs']_vars

C14_Witness ==
    /\ mainPc = "reorder"
    /\ roPc = "dialog"
    /\ mainSaves = 3
    /\ awPc = "saved"
    /\ mainPrefs.last_layout = Some("ops")
    /\ mainPrefs.disabled_layouts = <<>>
    /\ mainPrefs.custom_tab_names = ("/w/a" :> "x")
    /\ fsTarget = Some(save_preferences_content(mainPrefs))

\* The position main goes on to after the save_preferences it calls at pc.
PcAfterSave(pc) ==
    CASE pc = "selector" -> "customize"
      [] pc \in {"manage_directories", "manage_layouts"} -> "selector"
      [] pc = "customize" -> "customize"
      [] pc = "reorder" -> "tabs_ordered"
      [] pc = "tabs_ordered" -> "complete"
      [] OTHER -> "none"

\* C16: main is never aborted by save_preferences; a save that fails leaves
\* the file as it was and main's prefs with the value handed to the save,
\* and main goes on to the same position as after a save that succeeds.
C16_FailedSaveSwallowed ==
    /\ [](mainPc # "aborted")
    /\ [][mainSaves' = mainSaves + 1 =>
            /\ mainPc' = PcAfterSave(mainPc)
            /\ mainPrefs' = savedPrefs'
            /\ awPc' \in {"saved", "save_failed"}
            /\ awPc' = "save_failed" => fsTarget' = fsTarget
            /\ awPc' = "saved" => fsTarget' = Some(save_preferences_content(mainPrefs'))]_vars

C16_Witness ==
    /\ mainPc = "complete"
    /\ awPc = "save_failed"
    /\ fsTarget = Some(OldContent)
    /\ mainSaves = 3
    /\ "last_tab_order" \in DOMAIN mainPrefs
    /\ "last_tab_selections" \in DOMAIN mainPrefs
    /\ mainPrefs.last_tab_selections = <<"B", "A">>
\* C15 as stated: when the write, the fsync or the rename fails inside
\* atomic_write_file, the temp file is gone afterwards, the target is what it
\* was when the call began, an error is raised, and an out-of-space failure
\* is raised as the "Disk full" error and not as the plain errno.
C15_FailureRemovesTemp ==
    [][(awPc \in {"write", "rename"} /\ awPc' = "save_failed") =>
            /\ fsTemp' = None
            /\ fsTarget' = awPrev
            /\ awErr' \in {"Disk full"} \cup (ErrnoValues \ {"ENOSPC"})]_vars

\* C15 amended: when the write, the fsync or the rename fails, the temp file
\* is removed or, when removing it fails too, left as it was; the target is
\* what it was when the call began, an error is raised, and an out-of-space
\* failure is raised as the "Disk full" error and not as the plain errno.
C15_FailureCleansUpBestEffort ==
    [][(awPc \in {"write", "rename"} /\ awPc' = "save_failed") =>
            /\ fsTemp' \in {None, fsTemp}
            /\ fsTarget' = awPrev
            /\ fsTarget' = fsTarget
            /\ awErr' \in {"Disk full"} \cup (ErrnoValues \ {"ENOSPC"})]_vars

\* A failed write of a content over an existing file that ran out of space,
\* with the partly written temp file removed.
C15_Witness ==
    /\ awPc = "save_failed"
    /\ awErr = "Disk full"
    /\ awPrev = Some(OldContent)
    /\ fsTarget = awPrev
    /\ fsTemp = None
    /\ awContent # OldContent

\* A failed write whose temp file could not be removed either.
C15_TempLeftBehind ==
    /\ awPc = "save_failed"
    /\ awErr # "none"
    /\ fsTemp # None

\* The preferences files a session can find: none, every file an earlier
\* save wrote, the same files with the first two lines removed by hand
\* (down to the empty file), files that cannot be opened, and files with a
\* byte sequence that is not UTF-8.
SavedContents == {save_preferences_content(p) : p \in PrefsUniverse}

PrefFiles ==
    {None}
    \cup {Some(c) : c \in SavedContents}
    \cup {Some(Tail(Tail(c))) : c \in SavedContents}
    \cup {Unreadable(OldContent), Unreadable(<<>>)}
    \cup {Some(<<NotUtf8Line>>), Some(Append(OldContent, NotUtf8Line))}

InitLoad ==
    /\ prefs = PrefDefaults
    /\ fsTarget \in PrefFiles
    /\ fsTemp = None
    /\ awPc = "idle"
    /\ awContent = <<>>
    /\ awPrev = None
    /\ awErr = "none"
    /\ savedPrefs = PrefDefaults
    /\ loaded = None
    /\ IdleDs /\ IdleSel /\ IdleRo /\ IdleMain
    /\ IdleLaunch

NextLoad == load_preferences_at_start

SpecLoad == InitLoad /\ [][NextLoad]_vars

\* The dict of the defaults with the top-level keys of the file replaced.
DefaultsWithFileKeys(parsed) ==
    [k \in DOMAIN PrefDefaults \cup DOMAIN parsed |->
        IF k \in DOMAIN parsed THEN parsed[k] ELSE PrefDefaults[k]]

\* C17: load_preferences never fails: a missing file gives the defaults, a
\* file that cannot be opened, decoded or parsed gives the defaults, and a
\* file that parses gives the defaults with the top-level keys of the file
\* replaced, scan_directories being the default list when the file has none.
C17_LoadNeverFails ==
    loaded # None =>
        /\ "raised" \notin DOMAIN loaded[1]
        /\ IF \/ fsTarget = None
              \/ open_raises(fsTarget)
              \/ ~Decodes(fsTarget[1])
              \/ ~ContentParses(fsTarget[1])
           THEN loaded[1] = PrefDefaults
           ELSE /\ loaded[1] = DefaultsWithFileKeys(tomllib_load(fsTarget[1]))
                /\ "scan_directories" \notin DOMAIN tomllib_load(fsTarget[1])
                      => loaded[1].scan_directories = DEFAULT_SCAN_DIRECTORIES

\* C18: discovery never aborts: while discover_all_worktrees goes through
\* the repos, every step goes on to the next repo whatever the
\* version-control tool did (failed, timed out, missing); a repo whose
\* listing failed is warned about and adds no worktree; the worktrees found
\* for the repos before it are kept and returned.
C18_DiscoveryNeverAborts ==
    [][(dsPc = "worktrees" /\ dsIdx <= Len(dsRepos)) =>
            /\ dsPc' = "worktrees"
            /\ dsIdx' = dsIdx + 1
            /\ Len(dsDiscovered') >= Len(dsDiscovered)
            /\ SubSeq(dsDiscovered', 1, Len(dsDiscovered)) = dsDiscovered
            /\ dsWarned' # dsWarned =>
                  /\ dsDiscovered' = dsDiscovered
                  /\ dsWarned' = dsWarned \cup {dsRepos[dsIdx].name}]_vars

\* The declared tabs of the workspace configs of the model: none, a repo of
\* the scan root (also written with a trailing slash), a linked worktree.
DeclaredTabs ==
    {<<>>,
     <<[dir |-> "/w/r1", name |-> Some("R")]>>,
     <<[dir |-> "/w/r1/", name |-> None]>>,
     <<[dir |-> "/x/w1", name |-> Some("W")]>>,
     <<[dir |-> "/w/r2", name |-> None], [dir |-> "/x/w1", name |-> Some("W")]>>}

\* The scan_directories lists of the preferences of the model.
ScanDirectoryLists ==
    {<<[path |-> "/w", enabled |-> TRUE]>>,
     <<[path |-> "/w", enabled |-> FALSE]>>,
     <<[path |-> "/nx", enabled |-> TRUE], [path |-> "/w", enabled |-> TRUE]>>,
     <<[path |-> "/w", enabled |-> TRUE], [path |-> "/wl", enabled |-> FALSE]>>,
     <<[path |-> "/w", enabled |-> TRUE], [path |-> "/wl", enabled |-> TRUE]>>}

InitOffer ==
    /\ dsPc = "config_loaded"
    /\ dsRoots = <<>>
    /\ dsFs \in {f \in [Range(ChildNames) -> FsEntries] :
                    /\ ~f[".h"].is_dir
                    /\ f[".c"].git # "file"
                    /\ Cardinality({n \in Range(ChildNames) : f[n].git = "dir"}) <= MaxRepos}
    /\ dsExclude = {}
    /\ dsIdx = 0
    /\ dsDiscovered = <<>>
    /\ dsWarned = {}
    /\ dsRepos = <<>>
    /\ dsUntracked = <<>>
    /\ dsWorktrees = <<>>
    /\ dsListing = <<>>
    /\ IdlePrefs /\ IdleRo
    /\ IdleLaunch
    /\ selPc = "idle" /\ selLast = None /\ selCustom = EmptyDict
    /\ selHeight = 0 /\ selBoxes = <<>> /\ selRc = 0 /\ selOut = NoOutput
    /\ selResult = Pending /\ selSaved = None
    /\ NoRenameSession
    /\ \E tabs \in DeclaredTabs : selIn = [NoInputs EXCEPT !.layout_tabs = tabs]
    /\ mainPc = "idle" /\ mainAllTabs = <<>> /\ mainSaves = 0
    /\ \E dirs \in ScanDirectoryLists : mainPrefs = [PrefDefaults EXCEPT !.scan_directories = dirs]

NextOffer ==
    \/ main_discover_git_repos
    \/ worktree_list_parsed
    \/ worktree_list_fails
    \/ worktree_list_raises
    \/ discover_all_worktrees_return
    \/ main_offers_items

SpecOffer == InitOffer /\ [][NextOffer]_vars

\* C19: no item that show_tab_customization is given as a worktree, a
\* discovered repo or an untracked folder has the directory of a declared
\* tab of the workspace.
C19_OfferedNotDeclared ==
    dsPc = "offered" =>
        \A cat \in {"worktrees", "additional_repos", "untracked_folders"} :
            \A i \in 1..Len(selIn[cat]) :
                PathOf(expand_tab_path(selIn[cat][i].dir)) \notin layout_dirs(selIn.layout_tabs)

\* The repos, untracked folders and worktrees of one discovery pass.
DiscoveredItems == dsRepos \o dsUntracked \o dsWorktrees

\* C20: after a discovery pass the directories of the repos, the untracked
\* folders and the worktrees together are pairwise distinct by resolved path.
C20_DirsPairwiseDistinct ==
    dsPc = "offered" =>
        \A i, j \in 1..Len(DiscoveredItems) :
            i # j => Resolve(DiscoveredItems[i].dir) # Resolve(DiscoveredItems[j].dir)

\* The lines of the workspace files of the model.
CfgLines ==
    {CfgLine("tab", "/w/r1", 5, 0),
     CfgLine("junk", "dir = ", 6, 0),
     CfgLine("junk", "dir = ", 6, 2),
     CfgLine("junk", "x", MaxDisplayLine + 1, 0),
     CfgLine("open", "name = \"R", 9, 0),
     CfgLine("notutf8", "name = \"\\xe9\"", 10, 0)}

MaxCfgLines == 3

\* The workspace files of the model: none, every file of up to MaxCfgLines
\* lines, and a file that cannot be opened.
CfgFiles ==
    {None} \cup {Some(c) : c \in SeqsUpTo(CfgLines, MaxCfgLines)}
    \cup {Unreadable(<<>>)}

InitConfig ==
    /\ cfgFile \in CfgFiles
    /\ cfgResult = None
    /\ IdlePrefs /\ IdleDs /\ IdleSel /\ IdleRo /\ IdleMain /\ IdleCreate

NextConfig == load_config_from_path_call

SpecConfig == InitConfig /\ [][NextConfig]_vars

\* The file is not TOML: it cannot be decoded or holds a line that is no
\* statement.
Malformed(file) ==
    /\ file # None
    /\ ~open_raises(file)
    /\ \E i \in 1..Len(file[1]) : file[1][i].kind \in {"junk", "open", "notutf8"}

\* The text of the offending line an error result carries: the line_content
\* of its context if the context has one, else the line shown in its message.
CarriedLine(error) ==
    IF "line_content" \in DOMAIN error.context
    THEN error.context.line_content
    ELSE error.message.display

\* C21: load_config_from_path gives an error result of kind FILE_NOT_FOUND
\* for a missing file and of kind PARSE_ERROR for malformed TOML, and when
\* the parser names a line the PARSE_ERROR carries that line number in its
\* context and the text of that line of the file (trailing white space
\* aside).
C21_TypedLoadErrors ==
    cfgResult # None =>
        /\ cfgFile = None =>
              /\ "success" \in DOMAIN cfgResult[1]
              /\ ~cfgResult[1].success
              /\ cfgResult[1].error.error_type = "FILE_NOT_FOUND"
        /\ Malformed(cfgFile) =>
              /\ "success" \in DOMAIN cfgResult[1]
              /\ ~cfgResult[1].success
              /\ cfgResult[1].error.error_type = "PARSE_ERROR"
              /\ \A n \in 1..Len(cfgFile[1]) :
                    (\A i \in 1..Len(cfgFile[1]) : cfgFile[1][i].kind # "notutf8")
                    /\ FirstBadLine(cfgFile[1]) = n
                    /\ toml_error(cfgFile[1]).line = Some(n)
                    => /\ cfgResult[1].error.context.line_number = Some(n)
                       /\ CarriedLine(cfgResult[1].error) = Some(rstrip(cfgFile[1][n]))

(***************************************************************************)
(* SpecLaunch: main from the chosen workspace on, for a workspace file     *)
(* that is missing, malformed, unreadable, empty or fine, with the default *)
(* preferences or a saved tab order.                                       *)
(***************************************************************************)
LaunchFiles ==
    {None, Unreadable(<<>>), Some(<<>>),
     Some(<<CfgLine("tab", "/w/r1", 5, 0)>>),
     Some(<<CfgLine("junk", "dir = ", 6, 0)>>),
     Some(<<CfgLine("tab", "/w/r1", 5, 0), CfgLine("open", "name = \"R", 9, 0)>>),
     Some(<<CfgLine("notutf8", "name = \"\\xff\"", 10, 0)>>)}

\* The custom_tab_names of the model: none, a name for /w/a, and a name for
\* /h/p stored under the absolute path or under the path as the tab has it.
LaunchCustomNames ==
    {EmptyDict, ("/w/a" :> "n2"), ("/h/p" :> "n1"), ("~/p" :> "n1")}

LaunchPrefs ==
    {ord @@ [PrefDefaults EXCEPT !.custom_tab_names = names] :
        ord \in {EmptyDict, ("last_tab_order" :> <<"/x/w1", "/w/a">>)},
        names \in LaunchCustomNames}

InitLaunch ==
    /\ mainPc = "load_config"
    /\ mainPrefs \in LaunchPrefs
    /\ mainAllTabs = <<>>
    /\ mainSaves = 0
    /\ cfgFile \in LaunchFiles
    /\ cfgResult = None
    /\ IdleCreate
    /\ IdlePrefs /\ IdleDs /\ IdleSel /\ IdleRo

NextLaunch ==
    \/ main_load_config
    \/ main_discover_git_repos
    \/ discover_all_worktrees_return
    \/ main_offers_items
    \/ main_show_tab_customization
    \/ main_confirm_alert_returns
    \/ main_customization_reshown
    \/ main_orders_tabs
    \/ main_filter_already_open_tabs
    \/ main_tab_dir_missing
    \/ main_create_tab_with_splits
    \/ setup_pane_left
    \/ setup_pane_right
    \/ create_tab_with_splits_over
    \/ main_saves_selections

SpecLaunch == InitLaunch /\ [][NextLaunch]_vars

\* The workspace file could not be loaded: it is missing or malformed.
LoadFails(file) == file = None \/ Malformed(file)

\* C22: once main has asked for a workspace file that is missing or
\* malformed, it holds a typed error result that it has collected into its
\* report, it has returned without crashing, and no discovery has run, no
\* customization dialog was shown and no tab was created.
C22_LoadFailureAbortsLaunch ==
    (LoadFails(cfgFile) /\ mainPc # "load_config") =>
        /\ cfgResult # None
        /\ "success" \in DOMAIN cfgResult[1]
        /\ ~cfgResult[1].success
        /\ cfgResult[1].error.error_type \in {"FILE_NOT_FOUND", "PARSE_ERROR"}
        /\ lnReport = <<cfgResult[1].error>>
        /\ mainPc = "returned"
        /\ dsPc = "idle"
        /\ lnShown = 0
        /\ lnCalls = <<>>

(***************************************************************************)
(* SpecDialogs: the four dialogs, the selection flow with its rename       *)
(* dialogs and the reorder dialog, over the inputs of SpecSelect and       *)
(* SpecReorder.                                                            *)
(***************************************************************************)
InitDialogs == InitSelect \/ InitReorder

NextDialogs == NextSelect \/ NextReorder

SpecDialogs == InitDialogs /\ [][NextDialogs]_vars

\* The return codes of a dialog that ended by Cancel, by timeout or by an
\* error; show_tab_customization_swiftdialog runs the renderer itself, where
\* -4 is a raised TimeoutExpired.
AbortCodes == {run_swiftdialog_code(outcome) : outcome \in AbortOutcomes}

\* Cancel, timeout and error have different return codes.
OutcomesDistinguished ==
    \A o1, o2 \in AbortOutcomes : o1 # o2 => run_swiftdialog_code(o1) # run_swiftdialog_code(o2)

\* MAIN_SELECT was left by Cancel (its Back button), timeout or error: no
\* tabs are returned.
MainSelectAborted ==
    (selPc \in {"CANCELLED", "BACK_TO_PARENT"} /\ selRc \in AbortCodes \cup {-4})
        => selResult.kind \in {"None", "BACK_TO_SELECTOR"}

\* RENAME_CATEGORY_PICK was left by Cancel, timeout or error: no category,
\* and no rename dialog follows.
CategoryPickAborted ==
    (rnHow = "no_category" /\ dlgRc \in AbortCodes)
        => (selPc = "MAIN_SELECT" /\ rnCategory = None /\ rnReturn = None)

\* REORDER was left by Cancel, timeout or error: None.
ReorderAborted ==
    (roPc = "returned" /\ dlgRc \in AbortCodes) => roResult = None

PastCustomization == mainPc \in {"selected", "tabs_ordered", "creating", "complete"}

\* C24: whenever main has gone on from the tab customization with an empty
\* selection, the last answer to the "No Tabs Selected" alert was "Continue";
\* this covers the selection returned by the dialog shown after "Go Back".
C24_EmptySelectionConfirmed ==
    (PastCustomization /\ lnFinal.kind = "tabs" /\ lnFinal.tabs = <<>>) =>
        /\ lnAlert # <<>>
        /\ lnAlert[Len(lnAlert)] = AlertContinue

\* A path is normalized: ~ is expanded, symbolic links are resolved and no
\* slash trails.
IsNormalized(path) == normalize_tab_path(path) = path

\* The last_tab_order of a Preferences value, empty when it has none.
TabOrderOf(p) == IF "last_tab_order" \in DOMAIN p THEN p.last_tab_order ELSE <<>>

\* C25: every entry of last_tab_order, in the preferences main holds and in
\* the preferences a load of the file gives, is a normalized path.
C25_TabOrderNormalized ==
    /\ \A i \in 1..Len(TabOrderOf(mainPrefs)) : IsNormalized(TabOrderOf(mainPrefs)[i])
    /\ LET on_disk == load_preferences(fsTarget)
       IN  "raised" \notin DOMAIN on_disk =>
              \A i \in 1..Len(TabOrderOf(on_disk)) : IsNormalized(TabOrderOf(on_disk)[i])

\* The keys of custom_tab_names that hold a name and denote the directory of
\* a tab once both are normalized.
KeysDenoting(tab, custom_tab_names) ==
    {k \in DOMAIN custom_tab_names :
        /\ normalize_tab_path(k) = normalize_tab_path(get_tab_dir(tab))
        /\ custom_tab_names[k] # ""}

\* tab.get("name") or os.path.basename(expand_tab_path(path))
ConfiguredName(tab) ==
    IF tab.name # None /\ tab.name[1] # "" THEN tab.name[1]
    ELSE basename(expand_tab_path(get_tab_dir(tab)))

\* The claim as stated: the name a tab is created with is the custom name
\* stored under a key that denotes the dir of the tab after normalization,
\* and the configured name or the basename when there is no such key.
C26_LookupNormalizes ==
    \A i \in 1..Len(lnCalls) :
        LET keys == KeysDenoting(lnCalls[i].tab, mainPrefs.custom_tab_names)
        IN  IF keys # {}
            THEN lnCalls[i].name \in {mainPrefs.custom_tab_names[k] : k \in keys}
            ELSE lnCalls[i].name = ConfiguredName(lnCalls[i].tab)

\* C26: the name a tab is created with is the custom name stored under the
\* dir of the tab exactly as the tab has it, and without such an entry the
\* configured name of the tab, then the basename of its expanded dir.
C26_LookupByWrittenDir ==
    \A i \in 1..Len(lnCalls) :
        LET dir   == get_tab_dir(lnCalls[i].tab)
            names == mainPrefs.custom_tab_names
        IN  IF dir \in DOMAIN names /\ names[dir] # ""
            THEN lnCalls[i].name = names[dir]
            ELSE lnCalls[i].name = ConfiguredName(lnCalls[i].tab)

\* A tab written ~/p was created under its basename although a custom name
\* is stored for /h/p.
C26_Witness ==
    \E i \in 1..Len(lnCalls) :
        /\ lnCalls[i].tab.dir = "~/p"
        /\ "/h/p" \in DOMAIN mainPrefs.custom_tab_names
        /\ lnCalls[i].name = "p"

\* sub holds elements of seq at increasing positions.
IsOrderedSubSeq(sub, seq) ==
    \E f \in [1..Len(sub) -> 1..Len(seq)] :
        /\ \A i \in 1..Len(sub) : sub[i] = seq[f[i]]
        /\ \A i, j \in 1..Len(sub) : i < j => f[i] < f[j]

\* The selected tabs whose normalized dir is in open_dirs.
OpenSelected ==
    SelectSeq(lnSelected, LAMBDA t : normalize_tab_path(get_tab_dir(t)) \in lnOpenDirs)

\* C27: once the selected tabs are filtered, every selected tab is either to
\* be created or skipped and never both, both lists keep the order of the
\* selection, no tab to be created has a normalized dir that is an open
\* directory of the window, and create_tab_with_splits is called only for
\* tabs to be created, never for one whose normalized dir is open.
C27_OpenTabsNotCreated ==
    (mainPc \in {"creating", "complete"} \/ lnCalls # <<>>) =>
        /\ Len(mainAllTabs) + Len(lnSkipped) = Len(lnSelected)
        /\ IsOrderedSubSeq(mainAllTabs, lnSelected)
        /\ \A i \in 1..Len(mainAllTabs) :
              normalize_tab_path(get_tab_dir(mainAllTabs[i])) \notin lnOpenDirs
        /\ Len(lnSkipped) = Len(OpenSelected)
        /\ \A i \in 1..Len(lnCalls) :
              /\ lnCalls[i].tab \in Range(mainAllTabs)
              /\ normalize_tab_path(get_tab_dir(lnCalls[i].tab)) \notin lnOpenDirs

\* /w/a was created and /x/lnk, a link to the open directory /x/w1, was
\* skipped.
C27_Witness ==
    /\ lnOpenDirs = {"/x/w1"}
    /\ Len(lnSelected) = 2
    /\ lnSelected[2].dir = "/x/lnk"
    /\ lnSkipped = <<"lnk">>
    /\ Len(lnCalls) = 1
    /\ lnCalls[1].tab.dir = "/w/a"

\* The call of create_tab_with_splits for the latest tab is over: it returned
\* the tab or an exception left it.
CreateCallOver == lnCalls # <<>> /\ ctPc \in {"idle", "raised"}

\* C28: create_tab_with_splits is over only when both pane setups are over
\* (each returned or raised), so the failure of one pane never leaves the
\* other pane's setup unfinished, and main calls create_tab_with_splits for
\* the next tab only when the call for the previous tab has returned with
\* both pane setups over.
C28_PanesJoined ==
    /\ [](CreateCallOver => pane_over(paneL) /\ pane_over(paneR))
    /\ [][Len(lnCalls') > Len(lnCalls) =>
            /\ ctPc = "idle"
            /\ lnCalls # <<>> => pane_over(paneL) /\ pane_over(paneR)]_vars

\* The categories the selector offers for the inputs of the dialog.
OfferedCategories == NonEmptyCategories(CategoryCounts(items_to_rename(selIn, selCustom)))

\* C29: the category selector offers only categories that hold an item, and
\* a step of it that chooses no category (nothing switched on, Cancel,
\* timeout or renderer failure) goes back to the main dialog with
\* custom_tab_names and the main dialog's boxes as they were, no page of the
\* rename dialog shown, no name saved through the callback and the
\* preference store untouched.
C29_NoCategoryChangesNothing ==
    [][selPc = "RENAME_CATEGORY_PICK" =>
          /\ \A i \in 1..Len(OfferedCategories) : OfferedCategories[i].count >= 1
          /\ dlgRc' # 0 => rnCategory' = None
          /\ rnCategory' # None =>
                Len(ItemsOfCategory(items_to_rename(selIn, selCustom), rnCategory'[1])) >= 1
          /\ rnCategory' = None =>
                /\ selPc' = "MAIN_SELECT"
                /\ selCustom' = selCustom
                /\ selBoxes' = selBoxes
                /\ selSaved' = selSaved
                /\ rnShown' = EmptyDict /\ rnAll' = EmptyDict /\ rnReturn' = None
                /\ UNCHANGED prefVars]_vars

\* The selector timed out while custom names were stored: the main dialog is
\* back with the stored names and nothing saved.
C29_Witness ==
    /\ selPc = "MAIN_SELECT"
    /\ rnHow = "no_category"
    /\ dlgRc = 4
    /\ selCustom = ("/w/w2" :> "x")
    /\ selSaved = None

\* The paths whose field was last submitted empty or with blanks only.
BlankSubmitted == {path \in DOMAIN rnSubmitted : Strip(rnSubmitted[path]) = ""}

\* C30: in a rename session an item whose field was last submitted blank
\* (empty or blanks only) has the basename of its dir as its accumulated
\* edit, and when the dialog has returned, custom_tab_names and the names
\* handed to the save callback hold that basename for it; a step that
\* submits a non-blank text for an item whose accumulated edit is the
\* basename recorded for a blank field puts the stripped text in its place.
C30_BlankResetsToBasename ==
    /\ [](\A path \in BlankSubmitted :
             /\ selPc = "RENAME_PAGE" =>
                   (path \in DOMAIN rnAll /\ rnAll[path] = basename(path))
             /\ rnHow \in {"save", "cancel"} =>
                   /\ path \in DOMAIN selCustom /\ selCustom[path] = basename(path)
                   /\ selSaved # None /\ selSaved[1][path] = basename(path))
    /\ [][selPc = "RENAME_PAGE" =>
             \A path \in BlankSubmitted :
                 (path \in DOMAIN rnSubmitted' /\ Strip(rnSubmitted'[path]) # "") =>
                     rnAll'[path] = Strip(rnSubmitted'[path])]_vars

\* The field of /w/w2, which had the custom name x, was submitted with blanks
\* only and the dialog saved: /w/w2 is named w2.
C30_Witness ==
    /\ selPc = "MAIN_SELECT"
    /\ rnHow = "save"
    /\ rnCustom = ("/w/w2" :> "x")
    /\ "/w/w2" \in DOMAIN rnSubmitted
    /\ rnSubmitted["/w/w2"] = BlankText
    /\ selCustom["/w/w2"] = "w2"

\* The positions of the 'worktree' lines of a listing: one per record.
RecordStarts(lines) == {i \in 1..Len(lines) : lines[i].kind = "worktree"}

\* The lines of the record that starts at line i: up to the next 'worktree'
\* line.
RecordSpan(lines, i) ==
    {j \in (i + 1)..Len(lines) : \A k \in (i + 1)..j : lines[k].kind # "worktree"}

RecordHas(lines, i, kind) == \E j \in RecordSpan(lines, i) : lines[j].kind = kind

\* The name the markers of the record at line i give a worktree of repo.
RecordName(lines, i, repo) ==
    IF RecordHas(lines, i, "branch")
    THEN Some(Abbrev(repo.name) \o ".wt-"
              \o LastComponent(lines[CHOOSE j \in RecordSpan(lines, i) :
                                          lines[j].kind = "branch"].arg))
    ELSE IF RecordHas(lines, i, "detached")
    THEN Some(Abbrev(repo.name) \o ".wt-" \o basename(lines[i].arg))
    ELSE None

\* C31: what the parse of a repo's listing adds to the discovered worktrees
\* comes, in listing order, from distinct records of that listing, each with
\* a path that is not the repo root, a directory that exists and no
\* prunable marker of its own, and is named and marked detached by the
\* markers of that record alone; the worktrees returned at the end are
\* among those, so none is a repo's main worktree or a missing directory.
C31_WorktreesFiltered ==
    /\ [][(dsPc = "worktrees" /\ dsListing' # dsListing) =>
            LET lines == dsListing'
                repo  == dsRepos[dsIdx]
                added == SubSeq(dsDiscovered', Len(dsDiscovered) + 1, Len(dsDiscovered'))
            IN  /\ SubSeq(dsDiscovered', 1, Len(dsDiscovered)) = dsDiscovered
                /\ \E pos \in [1..Len(added) -> RecordStarts(lines)] :
                      /\ \A a, b \in DOMAIN pos : a < b => pos[a] < pos[b]
                      /\ \A a \in DOMAIN pos :
                            /\ added[a].dir = lines[pos[a]].arg
                            /\ added[a].parent = repo.name
                            /\ Resolve(added[a].dir) # Resolve(repo.dir)
                            /\ IsDir(added[a].dir)
                            /\ ~RecordHas(lines, pos[a], "prunable")
                            /\ added[a].name = RecordName(lines, pos[a], repo)
                            /\ added[a].detached = ~RecordHas(lines, pos[a], "branch")]_vars
    /\ [](dsPc = "done" =>
            \A i \in 1..Len(dsWorktrees) :
                /\ \E k \in 1..Len(dsDiscovered) : dsDiscovered[k] = dsWorktrees[i]
                /\ IsDir(dsWorktrees[i].dir)
                /\ \A r \in 1..Len(dsRepos) :
                      dsRepos[r].name = dsWorktrees[i].parent
                          => Resolve(dsWorktrees[i].dir) # Resolve(dsRepos[r].dir))

\* The listing of r1 held /x/w1 marked prunable and then the detached
\* /x/lnk: only /x/lnk was returned, named after its directory.
C31_Witness ==
    /\ dsPc = "done"
    /\ Len(dsRepos) = 1
    /\ Len(dsListing) = 13
    /\ dsListing[5] = PLine("worktree", "/x/w1")
    /\ dsListing[8].kind = "prunable"
    /\ dsListing[10] = PLine("worktree", "/x/lnk")
    /\ Len(dsWorktrees) = 1
    /\ dsWorktrees[1].dir = "/x/lnk"
    /\ dsWorktrees[1].name = Some(Abbrev(dsRepos[1].name) \o ".wt-lnk")

(***************************************************************************)
(* First-run detection and wizard (src/src/setup_wizard.py 157-375,        *)
(* src/src/main.py 61-175).  CONFIG_DIR is None when it does not exist,    *)
(* else the set of the file names in it; no legacy configuration exists,   *)
(* so needs_migration() is False and main starts with is_first_run().      *)
(***************************************************************************)
ConfigFiles == {"workspace-default.toml", "workspace-dev.toml", "layout.toml", "preferences.toml"}

\* The files of a config directory; a missing directory holds none.
FilesIn(dir) == IF dir = None THEN {} ELSE dir[1]

\* CONFIG_DIR.glob(WORKSPACE_PATTERN)
WorkspaceFiles(dir) == FilesIn(dir) \cap {"workspace-default.toml", "workspace-dev.toml"}

\* A detection that takes a missing directory for an installation in use.
is_first_run_needs_dir(dir) ==
    /\ dir # None
    /\ WorkspaceFiles(dir) = {}
    /\ "layout.toml" \notin FilesIn(dir)
    /\ "preferences.toml" \notin FilesIn(dir)

\* is_first_run
is_first_run(dir) ==
    /\ WorkspaceFiles(dir) = {}
    /\ "layout.toml" \notin FilesIn(dir)
    /\ "preferences.toml" \notin FilesIn(dir)

\* main: if is_first_run(): run_first_run_wizard, else on to the selection.
main_is_first_run ==
    /\ mainPc = "first_run"
    /\ wzFirstRun' = Some(is_first_run(cfgDir))
    /\ IF is_first_run(cfgDir)
       THEN mainPc' = "wizard" /\ wzPc' = "welcome"
       ELSE mainPc' = "start" /\ wzPc' = wzPc
    /\ UNCHANGED <<cfgDir0, cfgDir, mainPrefs, mainAllTabs, mainSaves>>
    /\ UNCHANGED <<prefVars, dsVars, selVars, roVars, cfgFile, cfgResult, createVars, dlgRc,
                   winVars>>

\* run_first_run_wizard, the welcome alert: "Get Started" (0) or "Cancel" (1);
\* main returns when the wizard returns False.
run_first_run_wizard_welcome ==
    /\ mainPc = "wizard"
    /\ wzPc = "welcome"
    /\ \E response \in {0, 1} :
          IF response = 1
          THEN wzPc' = "cancelled" /\ mainPc' = "returned"
          ELSE wzPc' = "folder" /\ mainPc' = mainPc
    /\ UNCHANGED <<cfgDir0, cfgDir, wzFirstRun, mainPrefs, mainAllTabs, mainSaves>>
    /\ UNCHANGED <<prefVars, dsVars, selVars, roVars, cfgFile, cfgResult, createVars, dlgRc,
                   winVars>>

\* run_first_run_wizard, the folder alert: "Add Folder" (0), "Skip" (1) or
\* "Cancel" (2).
run_first_run_wizard_folder ==
    /\ mainPc = "wizard"
    /\ wzPc = "folder"
    /\ \E response \in {0, 1, 2} :
          IF response = 2
          THEN wzPc' = "cancelled" /\ mainPc' = "returned"
          ELSE wzPc' = (IF response = 0 THEN "write_project" ELSE "write") /\ mainPc' = mainPc
    /\ UNCHANGED <<cfgDir0, cfgDir, wzFirstRun, mainPrefs, mainAllTabs, mainSaves>>
    /\ UNCHANGED <<prefVars, dsVars, selVars, roVars, cfgFile, cfgResult, createVars, dlgRc,
                   winVars>>

\* run_first_run_wizard, step 3: CONFIG_DIR.mkdir, which raises OSError out
\* of the wizard and main when the directory cannot be made, then
\* atomic_write_file of workspace-default.toml: written (the completion alert
\* is shown, the wizard returns True and main goes on), or OSError (the error
\* alert is shown, the wizard returns False and main returns).
run_first_run_wizard_write ==
    /\ mainPc = "wizard"
    /\ wzPc \in {"write", "write_project"}
    /\ \E outcome \in {"written", "mkdir_raises", "write_fails"} :
          CASE outcome = "written" ->
                  /\ cfgDir' = Some(FilesIn(cfgDir) \cup {"workspace-default.toml"})
                  /\ wzPc' = "completed"
                  /\ mainPc' = "start"
            [] outcome = "mkdir_raises" ->
                  /\ cfgDir' = cfgDir
                  /\ wzPc' = "raised"
                  /\ mainPc' = "crashed"
            [] outcome = "write_fails" ->
                  /\ cfgDir' = Some(FilesIn(cfgDir))
                  /\ wzPc' = "failed"
                  /\ mainPc' = "returned"
    /\ UNCHANGED <<cfgDir0, wzFirstRun, mainPrefs, mainAllTabs, mainSaves>>
    /\ UNCHANGED <<prefVars, dsVars, selVars, roVars, cfgFile, cfgResult, createVars, dlgRc,
                   winVars>>

\* discover_layouts of workspace-launcher.py: the names of the workspace
\* files.
discover_layouts(dir) ==
    {IF f = "workspace-default.toml" THEN "default" ELSE "dev" : f \in WorkspaceFiles(dir)}

\* The last_layout a preferences file of the directory can hold.
LastLayouts(dir) ==
    IF "preferences.toml" \in FilesIn(dir) THEN {None, Some("dev"), Some("default")} ELSE {None}

\* main: prefs = load_preferences() and the top of the selection loop.
\* discover_layouts of src/src/preferences.py reads the name LAYOUT_PATTERN,
\* which no module of src/src defines: there the call raises NameError out
\* of main.  With no workspace file (and no legacy layout) main logs "No
\* workspace files found" and returns; a last workspace that is still there
\* is offered by show_auto_open_dialog; otherwise show_layout_selector
\* presents the workspace selector.
main_first_loop_top ==
    /\ mainPc = "start"
    /\ wzFirstRun # None
    /\ \E last \in LastLayouts(cfgDir), copy \in {"workspace-launcher.py", "src/src"} :
          /\ mainPrefs' = [PrefDefaults EXCEPT !.last_layout = last]
          /\ mainPc' = IF copy = "src/src" THEN "crashed"
                       ELSE IF discover_layouts(cfgDir) = {} THEN "returned"
                       ELSE IF last # None /\ last[1] \in discover_layouts(cfgDir)
                            THEN "auto_open"
                            ELSE "selector"
    /\ UNCHANGED <<wizVars, winVars, mainAllTabs, mainSaves>>
    /\ UNCHANGED <<prefVars, dsVars, selVars, roVars, cfgFile, cfgResult, createVars, dlgRc,
                   winVars>>

\* show_auto_open_dialog returns: "open", "cancel", or "change", which shows
\* the selector.
main_first_auto_open_returns ==
    /\ mainPc = "auto_open"
    /\ wzFirstRun # None
    /\ \E auto_result \in {"open", "cancel", "change"} :
          mainPc' = CASE auto_result = "open" -> "load_config"
                      [] auto_result = "cancel" -> "returned"
                      [] OTHER -> "selector"
    /\ UNCHANGED <<wizVars, winVars, mainPrefs, mainAllTabs, mainSaves>>
    /\ UNCHANGED <<prefVars, dsVars, selVars, roVars, cfgFile, cfgResult, createVars, dlgRc,
                   winVars>>

\* show_layout_selector returns None (cancelled) or a workspace, which is
\* stored as last_layout.
main_first_selector_returns ==
    /\ mainPc = "selector"
    /\ wzFirstRun # None
    /\ \E selector_result \in {None} \cup {Some(n) : n \in discover_layouts(cfgDir)} :
          IF selector_result = None
          THEN mainPc' = "returned" /\ mainPrefs' = mainPrefs
          ELSE /\ mainPc' = "load_config"
               /\ mainPrefs' = [mainPrefs EXCEPT !.last_layout = selector_result]
    /\ UNCHANGED <<wizVars, winVars, mainAllTabs, mainSaves>>
    /\ UNCHANGED <<prefVars, dsVars, selVars, roVars, cfgFile, cfgResult, createVars, dlgRc,
                   winVars>>

InitFirstRun ==
    /\ mainPc = "first_run"
    /\ mainPrefs = PrefDefaults
    /\ mainAllTabs = <<>>
    /\ mainSaves = 0
    /\ cfgDir0 \in {None} \cup {Some(files) : files \in SUBSET ConfigFiles}
    /\ cfgDir = cfgDir0
    /\ wzPc = "idle"
    /\ wzFirstRun = None
    /\ cfgFile = None /\ cfgResult = None
    /\ lnReport = <<>> /\ lnFinal = NotShown /\ lnShown = 0 /\ lnAlert = <<>>
    /\ lnSelected = <<>> /\ lnOpenDirs = {} /\ lnSkipped = <<>> /\ lnIdx = 0
    /\ lnCalls = <<>> /\ lnWarned = <<>> /\ ctPc = "idle"
    /\ paneL = "idle" /\ paneR = "idle" /\ dlgRc = 0
    /\ IdleWin
    /\ IdlePrefs /\ IdleDs /\ IdleSel /\ IdleRo

NextFirstRun ==
    \/ main_is_first_run
    \/ run_first_run_wizard_welcome
    \/ run_first_run_wizard_folder
    \/ run_first_run_wizard_write
    \/ main_first_loop_top
    \/ main_first_auto_open_returns
    \/ main_first_selector_returns

SpecFirstRun == InitFirstRun /\ [][NextFirstRun]_vars

\* The launch found no config directory.
FreshInstall == cfgDir0 = None

\* C32 as stated: on a fresh install is_first_run() is true, the wizard is
\* run, and the workspace selector is never presented in that launch.
C32_FreshInstallNeverSelector ==
    FreshInstall =>
        /\ wzFirstRun # None => (wzFirstRun = Some(TRUE) /\ wzPc # "idle")
        /\ mainPc # "selector"

\* C32: on a fresh install is_first_run() is true and the wizard is run
\* before anything else; the workspace selector is presented only after the
\* wizard has completed and written the default workspace file, and a launch
\* whose wizard was cancelled or failed has returned without presenting it.
C32_FreshInstallWizardFirst ==
    FreshInstall =>
        /\ wzFirstRun # None => (wzFirstRun = Some(TRUE) /\ wzPc # "idle")
        /\ mainPc \in {"start", "selector", "auto_open", "load_config"} =>
              (wzPc = "completed" /\ "workspace-default.toml" \in FilesIn(cfgDir))
        /\ wzPc \in {"cancelled", "failed"} => mainPc = "returned"
        /\ wzPc = "raised" => mainPc = "crashed"

\* The wizard of a fresh install completed and the selector is presented.
C32_Witness ==
    /\ FreshInstall
    /\ wzFirstRun = Some(TRUE)
    /\ wzPc = "completed"
    /\ cfgDir = Some({"workspace-default.toml"})
    /\ mainPc = "selector"

\* The text an output holds under a title, NoEntry if none.
TextUnder(output, name) ==
    IF name \notin DOMAIN output THEN NoEntry
    ELSE IF "selectedValue" \in DOMAIN output[name]
         THEN output[name].selectedValue
         ELSE output[name]

\* The titles whose text in the output is not the default the dialog showed.
TouchedTitles(output) ==
    LET defaults == DefaultTexts(roCurrent, roCustom)
    IN  {name \in DOMAIN defaults : TextUnder(output, name) # defaults[name]}

\* C33: the defaults of the dialog are 10, 20, ... in the current order and
\* lie among the offered values 1..10*count; a sort submitted with the
\* defaults untouched leaves the order as it is, and a sort in which one
\* item was moved to a value strictly between the defaults of two adjacent
\* items (positions k and k + 1) places it between those two and keeps the
\* relative order of all other items.
C33_DefaultsAndFreeSlots ==
    [][SortStep =>
        LET out     == roLastOut'[1]
            count   == Len(roCurrent)
            touched == TouchedTitles(out)
        IN  /\ \A i \in 1..count :
                  /\ DefaultPosition(i) = 10 * i
                  /\ DefaultPosition(i) \in OfferedRanks(count)
            /\ touched = {} => roCurrent' = roCurrent
            /\ Cardinality(touched) = 1 =>
                  LET name == CHOOSE n \in touched : TRUE
                      text == TextUnder(out, name)
                      k    == text.n \div 10
                  IN  (/\ text.num
                       /\ k \in 1..(count - 1)
                       /\ DefaultPosition(k) < text.n) =>
                          \A i \in {x \in 1..count :
                                      get_tab_display_name(roCurrent[x], roCustom) = name} :
                              /\ \A a, b \in 1..count :
                                    (a < b /\ a # i /\ b # i) =>
                                        PositionIn(roCurrent', roCurrent[a])
                                            < PositionIn(roCurrent', roCurrent[b])
                              /\ k # i => PositionIn(roCurrent', roCurrent[k])
                                              < PositionIn(roCurrent', roCurrent[i])
                              /\ k + 1 # i => PositionIn(roCurrent', roCurrent[i])
                                                  < PositionIn(roCurrent', roCurrent[k + 1])]_vars

\* C34: whenever the tab customization that was shown last, the first one or
\* the one shown again after "Go Back", ended with "BACK_TO_SELECTOR", main
\* is back at the workspace selector: the signal was not taken for a list of
\* tabs, nothing was ordered and no tab was created.
C34_BackReturnsToSelector ==
    (lnShown > 0 /\ lnFinal.kind = "back") =>
        /\ mainPc = "selector"
        /\ lnSelected = <<>>
        /\ lnCalls = <<>>

(***************************************************************************)
(* SpecPaging: the rename dialog of one category of 1..MaxPagedItems items *)
(* on screens whose height gives pages of three, four or five fields, from *)
(* its first page to its return.                                           *)
(***************************************************************************)
MaxPagedItems == 7

\* 80% of the screen height: room for three, four and five fields; the
\* smallest is too low for three and gets the minimum.
PagingHeights == {300, 440, 485}

PagedTabs(n) == [i \in 1..n |-> BigTab(i)]

\* The rename dialog as show_tab_customization opens it for the category
\* "Layout Tabs" after "Rename Tabs" and the category selector.
InitPaging ==
    /\ \E n \in 1..MaxPagedItems, h \in PagingHeights :
          /\ selIn = [NoInputs EXCEPT !.layout_tabs = PagedTabs(n)]
          /\ selHeight = h
          /\ rnShown = textfields(page_items(ItemsOfCategory(items_to_rename(selIn, EmptyDict),
                                                             CategoryNames[1]),
                                             0, max_items_per_page(h)),
                                  EmptyDict, EmptyDict)
    /\ selLast = None
    /\ selCustom = EmptyDict
    /\ selBoxes = MainDialogBoxes(selIn, None, EmptyDict)
    /\ selPc = "RENAME_PAGE"
    /\ selRc = 3
    /\ selOut = NoOutput
    /\ selResult = Pending
    /\ selSaved = None
    /\ rnCategory = Some(CategoryNames[1])
    /\ rnCustom = EmptyDict /\ rnPage = 0 /\ rnAll = EmptyDict
    /\ rnSubmitted = EmptyDict /\ rnReturn = None /\ rnHow = "none"
    /\ IdlePrefs /\ IdleDs /\ IdleRo /\ IdleMain
    /\ IdleLaunch

NextPaging ==
    \/ rename_page_next
    \/ rename_page_save
    \/ rename_page_back
    \/ rename_page_cancel

SpecPaging == InitPaging /\ [][NextPaging]_vars

RECURSIVE PagesJoined(_, _, _)
\* The pages 0..(pages - 1) of the items, one after the other.
PagesJoined(items, per_page, pages) ==
    IF pages <= 0 THEN <<>>
    ELSE PagesJoined(items, per_page, pages - 1) \o page_items(items, pages - 1, per_page)

\* The titles of the fields of a page.
FieldTitles(items) == {path_display(items[i].dir) : i \in 1..Len(items)}

\* C35: while the rename dialog is open over n >= 1 items with pages of
\* s >= 3 fields, the pages 0..P-1 with P = ceil(n/s) are the consecutive
\* slices of the item list, each of 1..s items, every item has its field on
\* exactly one page, and the page shown holds the fields of its slice; the
\* primary button saves (the dialog returns its names) exactly on the last
\* page and moves to the next page on every other.
C35_PagesPartitionItems ==
    /\ [](selPc = "RENAME_PAGE" =>
            LET items == RenameItems
                n     == Len(items)
                s     == RenamePerPage
                P     == total_pages(n, s)
            IN  /\ n >= 1 /\ s >= MinItemsPerPage
                /\ P * s >= n /\ (P - 1) * s < n
                /\ rnPage \in 0..(P - 1)
                /\ PagesJoined(items, s, P) = items
                /\ \A p \in 0..(P - 1) : Len(page_items(items, p, s)) \in 1..s
                /\ \A i \in 1..n :
                      Cardinality({p \in 0..(P - 1) :
                          path_display(items[i].dir) \in FieldTitles(page_items(items, p, s))}) = 1
                /\ DOMAIN rnShown = FieldTitles(page_items(items, rnPage, s)))
    /\ [][(selPc = "RENAME_PAGE" /\ dlgRc' = 0 /\ selPc' = "MAIN_SELECT")
              => (rnHow' = "save"
                  /\ rnPage + 1 = total_pages(Len(RenameItems), RenamePerPage))]_vars
    /\ [][(selPc = "RENAME_PAGE" /\ rnPage' = rnPage + 1)
              => rnPage + 1 < total_pages(Len(RenameItems), RenamePerPage)]_vars

\* The dialog is on the middle page of three, and saved on the third.
C35_Witness ==
    /\ selPc = "MAIN_SELECT"
    /\ rnHow = "save"
    /\ Len(selIn.layout_tabs) = 7
    /\ max_items_per_page(selHeight) = 3
    /\ DOMAIN rnSubmitted = {selIn.layout_tabs[i].dir : i \in 1..7}

\* show_tab_customization_swiftdialog: remembered_selections =
\* set(last_tab_selections) if last_tab_selections else None
remembered_selections_of(last_tab_selections) ==
    IF last_tab_selections # None /\ last_tab_selections[1] # <<>>
    THEN Some(Range(last_tab_selections[1]))
    ELSE None

\* The category keys of the checkboxes of the main dialog.
CategoryKeys == {"layout", "worktree", "discovered", "untracked"}

\* prefs.get("last_tab_selections") of a loaded Preferences value.
LastSelectionsOf(p) ==
    IF "last_tab_selections" \in DOMAIN p THEN Some(p.last_tab_selections) ELSE None

\* The display names of the tabs the user chose, under the names in force.
ChosenNames == {get_tab_display_name(lnFinal.tabs[i], mainPrefs.custom_tab_names) :
                   i \in 1..Len(lnFinal.tabs)}

\* The launch went through to its end over a selection of pairwise distinct
\* display names and the final save wrote the preferences file.
LaunchCompleted ==
    /\ mainPc = "complete"
    /\ awPc = "saved"
    /\ lnFinal.kind = "tabs"
    /\ Cardinality(ChosenNames) = Len(lnFinal.tabs)

\* C36: after a completed launch last_tab_selections holds exactly the
\* display names of the chosen tabs, those skipped as already open included,
\* and the next launch, which loads the saved file and offers the same items
\* under the same custom names, shows an item checked iff it was chosen,
\* whatever category it is offered in; the empty selection included.
C36_SelectionMemoryRoundTrips ==
    LaunchCompleted =>
        LET next       == load_preferences(fsTarget)
            remembered == remembered_selections_of(LastSelectionsOf(next))
        IN  /\ "last_tab_selections" \in DOMAIN mainPrefs
            /\ Len(mainPrefs.last_tab_selections) = Len(lnFinal.tabs)
            /\ Range(mainPrefs.last_tab_selections) = ChosenNames
            /\ \A i \in 1..Len(LaunchTabs), category \in CategoryKeys :
                  _is_tab_selected(LaunchTabs[i], category, remembered,
                                   next.custom_tab_names)
                      <=> LaunchTabs[i] \in Range(lnFinal.tabs)

\* The rename dialog returns names that show_tab_customization commits.
RenameCommits ==
    /\ selPc = "RENAME_PAGE"
    /\ selPc' = "MAIN_SELECT"
    /\ selCustom' # selCustom

\* The tabs of the checkboxes of a main dialog.
BoxTabs(boxes) == {boxes[i].tab : i \in 1..Len(boxes)}

\* C37: when a rename is committed and the main dialog is shown again, it
\* shows the same items, and every item is checked iff it was checked in the
\* main dialog before the rename.
C37_RenameKeepsChecks ==
    [][RenameCommits =>
        /\ BoxTabs(selBoxes') = BoxTabs(selBoxes)
        /\ \A i \in 1..Len(selBoxes'), j \in 1..Len(selBoxes) :
              selBoxes'[i].tab = selBoxes[j].tab
                  => selBoxes'[i].checked = selBoxes[j].checked]_vars

(***************************************************************************)
(* reorder_window_tabs (src/workspace-launcher.py 4686-4755,               *)
(* src/src/tab_detection.py 79-133).  A tab of the window is a record      *)
(* [tab_id, sessions]; a session gives its "path" variable, which may be   *)
(* empty, or the query for it raises.  src/src/tab_detection.py has no     *)
(* created_tabs: it is the function called with none.                      *)
(***************************************************************************)
MaxWinTabs == 3

\* The sessions of one tab in the model: on /w/a, on /x/w1 (the target of
\* the link /x/lnk), without a path yet, with a first session that has no
\* path or whose query raises before one on /w/a, and with no session that
\* answers.
TabSessions ==
    {<<[path |-> "/w/a", query_ok |-> TRUE]>>,
     <<[path |-> "/x/w1/", query_ok |-> TRUE]>>,
     <<[path |-> "", query_ok |-> TRUE]>>,
     <<[path |-> "", query_ok |-> TRUE], [path |-> "/w/a", query_ok |-> TRUE]>>,
     <<[path |-> "/w/b", query_ok |-> FALSE], [path |-> "/w/a", query_ok |-> TRUE]>>,
     <<[path |-> "/w/b", query_ok |-> FALSE]>>}

TabIds == <<"t1", "t2", "t3", "t4">>

\* The windows of the model: 1..MaxWinTabs tabs, any sessions each.
Windows ==
    UNION {{[i \in 1..n |-> [tab_id |-> TabIds[i], sessions |-> ss[i]]] :
               ss \in [1..n -> TabSessions]} : n \in 1..MaxWinTabs}

\* The desired orders of the model: one entry, two entries of which the
\* first is a link, an entry given twice around another, and no match.
DesiredOrders ==
    {<<"/w/a">>, <<"/x/lnk", "/w/a">>, <<"/w/a", "/x/w1", "/w/a/">>, <<"/w/b">>}

\* The created_tabs of the model over a window: none, one created tab, or two
\* created tabs under dirs that are one directory when normalized.
CreatedTabs(window_tabs) ==
    {<<>>}
    \cup {<<[dir |-> d, tab_id |-> window_tabs[i].tab_id]>> :
             d \in {"/w/a", "/x/lnk"}, i \in 1..Len(window_tabs)}
    \cup {<<[dir |-> "/x/lnk", tab_id |-> window_tabs[i].tab_id],
            [dir |-> "/x/w1", tab_id |-> window_tabs[j].tab_id]>> :
             <<i, j>> \in {x \in (1..Len(window_tabs)) \X (1..Len(window_tabs)) :
                               x[1] # x[2]}}

RECURSIVE created_dir_to_tab(_)
\* for dir_path, tab in created_tabs.items():
\*     dir_to_tab[normalize_tab_path(dir_path)] = tab
created_dir_to_tab(created_tabs) ==
    IF created_tabs = <<>> THEN EmptyDict
    ELSE LET last == created_tabs[Len(created_tabs)]
         IN  (normalize_tab_path(last.dir) :> last.tab_id)
                 @@ created_dir_to_tab(SubSeq(created_tabs, 1, Len(created_tabs) - 1))

\* The path of the first session whose query does not raise and gives a
\* path, None if there is none: except ...: continue; if path: ...; break
first_session_path(sessions) ==
    LET answering == {i \in 1..Len(sessions) : sessions[i].query_ok /\ sessions[i].path # ""}
    IN  IF answering = {} THEN None
        ELSE Some(sessions[CHOOSE i \in answering : \A j \in answering : i <= j].path)

\* The body of `for tab in window.tabs:` of the query loop: a created tab is
\* passed over, the path of another is mapped when no tab is mapped to it.
dir_to_tab_with(dir_to_tab, tab, created_tabs) ==
    LET path == first_session_path(tab.sessions)
    IN  IF tab.tab_id \in {created_tabs[i].tab_id : i \in 1..Len(created_tabs)}
        THEN dir_to_tab
        ELSE IF path # None /\ normalize_tab_path(path[1]) \notin DOMAIN dir_to_tab
             THEN (normalize_tab_path(path[1]) :> tab.tab_id) @@ dir_to_tab
             ELSE dir_to_tab

\* A loop over the desired order that appends every tab it finds.
entry_appends_found(tab, used_tabs) == tab # None

\* if tab and tab.tab_id not in used_tabs
entry_appends(tab, used_tabs) == tab # None /\ tab[1] \notin used_tabs

RECURSIVE ordered_by_desired(_, _)
\* for dir_path in desired_order: the tabs appended, in order.
ordered_by_desired(desired_order, dir_to_tab) ==
    IF desired_order = <<>> THEN <<>>
    ELSE LET front == ordered_by_desired(SubSeq(desired_order, 1, Len(desired_order) - 1),
                                         dir_to_tab)
             tab   == Get(dir_to_tab, normalize_tab_path(desired_order[Len(desired_order)]))
         IN  IF entry_appends(tab, Range(front)) THEN Append(front, tab[1]) ELSE front

\* for tab in window.tabs: if tab.tab_id not in used_tabs: append
with_remaining_tabs(ordered_tabs, window_tabs) ==
    ordered_tabs \o
    SelectSeq([i \in 1..Len(window_tabs) |-> window_tabs[i].tab_id],
              LAMBDA id : id \notin Range(ordered_tabs))

\* reorder_window_tabs: dir_to_tab starts with the created tabs.
reorder_window_tabs_maps_created ==
    /\ winPc = "called"
    /\ winMap' = created_dir_to_tab(winCreated)
    /\ winIdx' = 1
    /\ winPc' = "querying"
    /\ UNCHANGED <<winTabs, winDesired, winCreated, winOrdered>>
    /\ UNCHANGED <<prefVars, dsVars, selVars, roVars, mainVars, cfgFile, cfgResult,
                   createVars, dlgRc, wizVars>>

\* reorder_window_tabs: the sessions of the next tab of the window are
\* queried for their path.
reorder_window_tabs_queries_tab ==
    /\ winPc = "querying"
    /\ winIdx <= Len(winTabs)
    /\ winMap' = dir_to_tab_with(winMap, winTabs[winIdx], winCreated)
    /\ winIdx' = winIdx + 1
    /\ UNCHANGED <<winTabs, winDesired, winCreated, winOrdered, winPc>>
    /\ UNCHANGED <<prefVars, dsVars, selVars, roVars, mainVars, cfgFile, cfgResult,
                   createVars, dlgRc, wizVars>>

\* reorder_window_tabs: ordered_tabs is built and, if it has more than one
\* tab, handed to window.async_set_tabs, whose failure is logged.
reorder_window_tabs_sets_tabs ==
    /\ winPc = "querying"
    /\ winIdx > Len(winTabs)
    /\ winOrdered' = with_remaining_tabs(ordered_by_desired(winDesired, winMap), winTabs)
    /\ IF Len(winOrdered') > 1
       THEN \E ok \in BOOLEAN : winPc' = IF ok THEN "reordered" ELSE "set_failed"
       ELSE winPc' = "not_handed"
    /\ UNCHANGED <<winTabs, winDesired, winCreated, winMap, winIdx>>
    /\ UNCHANGED <<prefVars, dsVars, selVars, roVars, mainVars, cfgFile, cfgResult,
                   createVars, dlgRc, wizVars>>

(***************************************************************************)
(* SpecWindow: one reorder_window_tabs call over any window, desired order *)
(* and created tabs of the model.                                          *)
(***************************************************************************)
InitWindow ==
    /\ winTabs \in Windows
    /\ winDesired \in DesiredOrders
    /\ winCreated \in CreatedTabs(winTabs)
    /\ winMap = EmptyDict
    /\ winIdx = 0
    /\ winOrdered = <<>>
    /\ winPc = "called"
    /\ cfgFile = None /\ cfgResult = None
    /\ IdleTabs /\ IdleWiz
    /\ IdlePrefs /\ IdleDs /\ IdleSel /\ IdleRo /\ IdleMain

NextWindow ==
    \/ reorder_window_tabs_maps_created
    \/ reorder_window_tabs_queries_tab
    \/ reorder_window_tabs_sets_tabs

SpecWindow == InitWindow /\ [][NextWindow]_vars

\* ordered_tabs has been built.
OrderBuilt == winPc \in {"reordered", "set_failed", "not_handed"}

\* The entries of the desired order that dir_to_tab resolves to the tab.
MatchingEntries(tab_id) ==
    {e \in 1..Len(winDesired) :
        Get(winMap, normalize_tab_path(winDesired[e])) = Some(tab_id)}

FirstMatchingEntry(tab_id) ==
    CHOOSE e \in MatchingEntries(tab_id) : \A f \in MatchingEntries(tab_id) : e <= f

\* The position of a tab in the window.
WindowPosition(tab_id) == CHOOSE i \in 1..Len(winTabs) : winTabs[i].tab_id = tab_id

\* C38: the list reorder_window_tabs builds, and hands to the window when it
\* has more than one tab, holds every tab of the window exactly once; the
\* tabs an entry of the desired order resolves to come first, in the order of
\* their first matching entries, and the other tabs follow in window order.
C38_OrderedTabsPermutation ==
    OrderBuilt =>
        /\ Len(winOrdered) = Len(winTabs)
        /\ \A i \in 1..Len(winTabs) :
              Cardinality({k \in 1..Len(winOrdered) : winOrdered[k] = winTabs[i].tab_id}) = 1
        /\ \A k, l \in 1..Len(winOrdered) :
              k < l =>
                  LET a == winOrdered[k]
                      b == winOrdered[l]
                  IN  CASE MatchingEntries(a) # {} /\ MatchingEntries(b) # {} ->
                              FirstMatchingEntry(a) < FirstMatchingEntry(b)
                        [] MatchingEntries(a) = {} /\ MatchingEntries(b) = {} ->
                              WindowPosition(a) < WindowPosition(b)
                        [] OTHER -> MatchingEntries(a) # {}

\* A window of three tabs, the first and the third on /w/a, was handed its
\* tabs for a desired order of the link to /x/w1 and of /w/a: the second
\* tab first, then the first, then the other tab on /w/a.
C38_Witness ==
    /\ winPc = "reordered"
    /\ winDesired = <<"/x/lnk", "/w/a">>
    /\ winCreated = <<>>
    /\ winOrdered = <<"t2", "t1", "t3">>
    /\ first_session_path(winTabs[1].sessions) = Some("/w/a")
    /\ first_session_path(winTabs[2].sessions) = Some("/x/w1/")
    /\ first_session_path(winTabs[3].sessions) = Some("/w/a")

\* The tabs create_tab_with_splits was called for.
CalledTabs == {lnCalls[i].tab : i \in 1..Len(lnCalls)}

\* C39: of the create_tab_with_splits calls only the first can take the
\* window's current tab (is_first), and none does when a selected tab was
\* skipped as already open; a tab whose directory does not exist is passed
\* over with a warning, leaves the initial tab to the first tab that is
\* created, and does not keep the tabs after it from being created.
C39_InitialTabUsedOnce ==
    /\ \A i \in 1..Len(lnCalls) :
          lnCalls[i].is_first => (i = 1 /\ lnSkipped = <<>>)
    /\ (lnCalls # <<>> /\ lnSkipped = <<>>) => lnCalls[1].is_first
    /\ mainPc \in {"creating", "complete"} =>
          \A i \in 1..Len(mainAllTabs) :
              i < lnIdx =>
                  IF IsDir(expand_tab_path(get_tab_dir(mainAllTabs[i])))
                  THEN mainAllTabs[i] \in CalledTabs
                  ELSE /\ get_tab_dir(mainAllTabs[i]) \in Range(lnWarned)
                       /\ mainAllTabs[i] \notin CalledTabs
    /\ mainPc = "complete" => lnIdx > Len(mainAllTabs)

\* A launch went through in which the first tab's directory was missing and
\* the tab after it took the window's current tab.
C39_Witness ==
    /\ mainPc = "complete"
    /\ lnSkipped = <<>>
    /\ Len(mainAllTabs) >= 2
    /\ ~IsDir(expand_tab_path(get_tab_dir(mainAllTabs[1])))
    /\ lnWarned = <<get_tab_dir(mainAllTabs[1])>>
    /\ Len(lnCalls) = Len(mainAllTabs) - 1
    /\ lnCalls[1].is_first
    /\ lnCalls[1].tab = mainAllTabs[2]

====
